---- MODULE Spec2Model ----
(***************************************************************************)
(* Layer-tree state model of the flood-risk map viewer: the catalog tree   *)
(* of config/layers.ts, the LayerTree component's tree state and its sync  *)
(* effect, the App's Visible-ID Set, and the scenario matrix's toggles.    *)
(*                                                                         *)
(* React is modelled by three phases.  A user event runs its handler in    *)
(* phase "idle": the handler only queues state updates (`pending`, in the  *)
(* order the handler issued them).  Render applies the queued updaters,    *)
(* the App's (the Visible-ID Set) before the LayerTree's (the tree), the   *)
(* parent rendering before the child.  Effect is the LayerTree's sync      *)
(* effect, which runs after a render that gave it a new Set object.        *)
(* A render also runs the MapViewer's WMS-layer effect when the App made   *)
(* a new visibleLayers list, and the cleanup of the items it unmounted.    *)
(* The opacity sliders' timeouts live on a clock of ticks; the search box  *)
(* filters which items the tree view renders.                              *)
(*                                                                         *)
(* Spec is the whole user interface.  The other specifications take        *)
(* longer behaviours of a part of it: the matrix cells, the selection      *)
(* axes, the map (also with an opacity that drifts and with a map that is *)
(* made again), the sliders, the handlers called with any id, the expand   *)
(* controls, the search box, the tree's controls, and LiveSpec, which adds *)
(* React's scheduling as fairness.                                         *)
(*                                                                         *)
(* Opacities are held in percent (0.8 is 80).  A leaf keeps the fields     *)
(* id, name, geometryType, visible and opacity of LayerInfo; type,         *)
(* geoserverName, workspace and legendUrl are never read by the state      *)
(* logic and are left out.                                                 *)
(***************************************************************************)
EXTENDS Integers, Sequences, FiniteSets, TLC

VARIABLES
    tree,               \* LayerTree: const [tree, setTree] = useState(initialRoot)
    viewMode,           \* LayerTree: const [viewMode, setViewMode] = useState('matrix')
    visibleLayerIds,    \* App: the Set<string>, as its insertion-ordered sequence
    prevVisibleIdsRef,  \* LayerTree: prevVisibleIdsRef.current (a sorted array)
    pending,            \* state updates queued by handlers/effects, in issue order
    phase,              \* "idle" | "render" | "effect"
    selectedClimate,    \* ScenarioMatrix state
    selectedParameter,  \* ScenarioMatrix state
    compareMode,        \* ScenarioMatrix state
    selectedMaintenance,\* ScenarioMatrix state
    events,             \* number of user events handled so far
    lastStep,           \* history: what the last step was
    lastToggle,         \* history: the last visibility event, with the Set and the
                        \*          leaves (id, visible) as they were before it
    lastSync,           \* history: the Set the last syncVisibility was given
    lastAxis,           \* history: the last selection-axis event of the matrix, with
                        \*          the mode and the selection it found
    budget,             \* how many user events the behaviour may take
    layerOpacities,     \* App: the Map<string, number> of opacity overrides (percent)
    searchQuery,        \* LayerTree: const [searchQuery, setSearchQuery] = useState('')
    timeouts,           \* the pending timeouts the LayerTreeItems have set, in the
                        \* order of their setTimeout: leaf id, value, time elapsed
    sliderLog,          \* history: per leaf the slider inputs not yet delivered, the
                        \*          last delivery, the last value delivered per id, and
                        \*          the leaves whose pending inputs an unmount dropped
    visibleLayers,      \* MapViewer: the visibleLayers prop of the last render
    mapInstance,        \* MapViewer: mapInstance.current, the Map with its layers
    baseLayerRefs,      \* MapViewer: baseLayerRefs.current, base map id -> layer
    layerRefs,          \* MapViewer: layerRefs.current, leaf id -> layer handle
    layerOpacitiesRef,  \* MapViewer: layerOpacitiesRef.current, leaf id -> opacity
    olLayers,           \* the TileLayer objects of the handles: opacity, zIndex
    passes,             \* how often the WMS-layer effect has run
    lastPass            \* history: the handles the last run removed and added, the
                        \*          leaves whose handle it gave another opacity, and the
                        \*          setOpacity / setZIndex calls it made on kept handles

appVars == <<tree, viewMode, visibleLayerIds, prevVisibleIdsRef, pending, phase,
             selectedClimate, selectedParameter, compareMode, selectedMaintenance,
             events, lastStep, lastToggle, lastSync, lastAxis, budget,
             layerOpacities, searchQuery, timeouts, sliderLog>>

mapVars == <<visibleLayers, mapInstance, baseLayerRefs, layerRefs, layerOpacitiesRef,
             olLayers, passes, lastPass>>

vars == <<appVars, mapVars>>

matrixVars == <<selectedClimate, selectedParameter, compareMode, selectedMaintenance>>

histVars == <<lastToggle, lastSync>>

sliderVars == <<timeouts, sliderLog>>

(***************************************************************************)
(* Bounds of the model.                                                    *)
(***************************************************************************)
\* user events per behaviour
MaxEvents == 2
\* selection-axis events per behaviour of the scenario matrix on its own
MaxAxisEvents == 5
\* runs of the MapViewer's WMS-layer effect per behaviour
MaxPasses == 2
\* how many of the seven return periods the catalog and the matrix use: the
\* first so many of ReturnPeriodChoice
NumReturnPeriods == 2
\* how many of the four parameters the catalog and the matrix use
NumParameters == 1

Take(s, n) == SubSeq(s, 1, IF n < Len(s) THEN n ELSE Len(s))

Range(s) == {s[i] : i \in DOMAIN s}

\* a function without the keys in `gone`, and a function with one entry set
Without(f, gone) == [x \in DOMAIN f \ gone |-> f[x]]

With(f, key, value) == [x \in DOMAIN f \cup {key} |-> IF x = key THEN value ELSE f[x]]

\* the return periods kept under the bound, the quick-select's "common events"
\* among the first
ReturnPeriodChoice == <<"25", "50", "2.3", "100", "5", "10", "500">>

KeptReturnPeriods(all) ==
    SelectSeq(all, LAMBDA rp : rp \in Range(Take(ReturnPeriodChoice, NumReturnPeriods)))

RECURSIVE Flatten(_)
Flatten(ss) == IF ss = <<>> THEN <<>> ELSE Head(ss) \o Flatten(Tail(ss))

(***************************************************************************)
(* String.prototype.toLowerCase and String.prototype.includes.             *)
(***************************************************************************)
UpperCase == "ABCDEFGHIJKLMNOPQRSTUVWXYZ"
LowerCase == "abcdefghijklmnopqrstuvwxyz"

\* the lower-case letter of every upper-case letter
LowerOf ==
    LET upper(i) == SubSeq(UpperCase, i, i)
    IN  [c \in {upper(i) : i \in 1..Len(UpperCase)} |->
            LET i == CHOOSE k \in 1..Len(UpperCase) : upper(k) = c
            IN  SubSeq(LowerCase, i, i)]

\* one character lowered
toLowerCaseChar(c) == IF c \in DOMAIN LowerOf THEN LowerOf[c] ELSE c

RECURSIVE toLowerCase(_)
toLowerCase(s) ==
    IF s = "" THEN "" ELSE toLowerCaseChar(SubSeq(s, 1, 1)) \o toLowerCase(Tail(s))

includes(s, searchString) ==
    \E i \in 0..(Len(s) - Len(searchString)) :
        SubSeq(s, i + 1, i + Len(searchString)) = searchString

(***************************************************************************)
(* config/layers.ts: the catalog.                                          *)
(***************************************************************************)
\* buildLayerName without the lower-casing: the names as the catalog passes them
buildLayerNameAsGiven(scenario, maintenance, returnPeriod, parameter) ==
    "t3_" \o returnPeriod \o "yrs_" \o scenario \o "_" \o maintenance \o "_" \o parameter

buildLayerName(scenario, maintenance, returnPeriod, parameter) ==
    "t3_" \o returnPeriod \o "yrs_" \o toLowerCase(scenario) \o "_"
          \o toLowerCase(maintenance) \o "_" \o toLowerCase(parameter)

createRasterLayer(name, geoserverName, visible, opacity) ==
    [id |-> geoserverName, name |-> name, geometryType |-> "raster",
     visible |-> visible, opacity |-> opacity]

createVectorLayer(name, geoserverName, visible, opacity, geometryType) ==
    [id |-> geoserverName, name |-> name, geometryType |-> geometryType,
     visible |-> visible, opacity |-> opacity]

catalogParameters == Take(<<"maxdepth", "maxvelocity", "duration", "vh">>, NumParameters)

catalogReturnPeriods == KeptReturnPeriods(<<"2.3", "5", "10", "25", "50", "100", "500">>)

paramLabels(param) ==
    CASE param = "maxdepth" -> "Depth"
      [] param = "maxvelocity" -> "Velocity"
      [] param = "duration" -> "Duration"
      [] param = "vh" -> "V x h"

generateFloodScenarioLayers(scenario, maintenance) ==
    [p \in DOMAIN catalogParameters |->
        LET param == catalogParameters[p] IN
        [id |-> scenario \o "_" \o maintenance \o "_" \o param,
         name |-> paramLabels(param),
         expanded |-> FALSE,
         visible |-> FALSE,
         children |-> [r \in DOMAIN catalogReturnPeriods |->
             createRasterLayer(catalogReturnPeriods[r] \o " Years",
                 buildLayerName(scenario, maintenance, catalogReturnPeriods[r], param),
                 FALSE, 80)]]]

layerTree ==
    [id |-> "root", name |-> "Layers", expanded |-> TRUE, visible |-> TRUE,
     children |-> <<
        [id |-> "survey", name |-> "Survey", expanded |-> FALSE, visible |-> FALSE,
         children |-> <<
            createVectorLayer("DGPS Survey Points", "dgps_11apr_09aug2025", FALSE, 100, "point")>>],
        [id |-> "structures", name |-> "Structures", expanded |-> FALSE, visible |-> FALSE,
         children |-> <<
            createVectorLayer("Structures", "structures", FALSE, 100, "polygon"),
            createVectorLayer("Canal Network", "canal_network", FALSE, 100, "line"),
            createVectorLayer("Drains", "drains", FALSE, 100, "line")>>],
        [id |-> "supporting", name |-> "Supporting Layers", expanded |-> FALSE, visible |-> TRUE,
         children |-> <<
            createVectorLayer("Area of Interest", "aoi", FALSE, 60, "polygon"),
            createVectorLayer("Sindh Province", "sindh_province", FALSE, 40, "polygon"),
            createVectorLayer("Sub-Catchments", "subcatchments", FALSE, 50, "polygon")>>],
        [id |-> "present_climate", name |-> "Present Climate", expanded |-> TRUE, visible |-> TRUE,
         children |-> <<
            [id |-> "present_breaches", name |-> "Maintenance - Breaches",
             expanded |-> FALSE, visible |-> FALSE,
             children |-> generateFloodScenarioLayers("Present", "Breaches")],
            [id |-> "present_redcapacity", name |-> "Maintenance - Reduced Capacity",
             expanded |-> FALSE, visible |-> FALSE,
             children |-> generateFloodScenarioLayers("Present", "RedCapacity")],
            [id |-> "present_perfect", name |-> "Maintenance - Perfect",
             expanded |-> FALSE, visible |-> FALSE,
             children |-> generateFloodScenarioLayers("Present", "Perfect")]>>],
        [id |-> "future_climate", name |-> "Future Climate", expanded |-> FALSE, visible |-> FALSE,
         children |-> <<
            [id |-> "future_breaches", name |-> "Maintenance - Breaches",
             expanded |-> FALSE, visible |-> FALSE,
             children |-> generateFloodScenarioLayers("Future", "Breaches")],
            [id |-> "future_redcapacity", name |-> "Maintenance - Reduced Capacity",
             expanded |-> FALSE, visible |-> FALSE,
             children |-> generateFloodScenarioLayers("Future", "RedCapacity")],
            [id |-> "future_perfect", name |-> "Maintenance - Perfect",
             expanded |-> FALSE, visible |-> FALSE,
             children |-> generateFloodScenarioLayers("Future", "Perfect")]>>],
        [id |-> "flood2022", name |-> "Flood 2022 (Actual Event)",
         expanded |-> FALSE, visible |-> FALSE,
         children |-> <<
            createRasterLayer("Max Depth", "t3_flood2022_maxdepth", FALSE, 80),
            createRasterLayer("Max Velocity", "t3_flood2022_maxvelocity", FALSE, 80),
            createRasterLayer("Duration", "t3_flood2022_duration", FALSE, 80),
            createRasterLayer("V x h", "t3_flood2022_vh", FALSE, 80)>>],
        [id |-> "hdtm", name |-> "HDTM", expanded |-> FALSE, visible |-> FALSE,
         children |-> <<
            createRasterLayer("HDTM Tile 1 (e68n26)", "1_e68n26_HDTM1mV2", FALSE, 100),
            createRasterLayer("HDTM Tile 2 (e67n26)", "2_e67n26_HDTM1mV3", FALSE, 100),
            createRasterLayer("HDTM Tile 3 (e68n27)", "3_e68n27_HDTM1mV2", FALSE, 100),
            createRasterLayer("HDTM Tile 4 (e67n27)", "4_e67n27_HDTM1mV2", FALSE, 100),
            createRasterLayer("HDTM Tile 5 (e69n28)", "5_e69n28_HDTM1m", FALSE, 100),
            createRasterLayer("HDTM Tile 6 (e68n28)", "6_e68n28_HDTM1m", FALSE, 100),
            createRasterLayer("HDTM Tile 7 (e67n28)", "7_e67n28_HDTM1m", FALSE, 100),
            createRasterLayer("HDTM Tile 8 (e68n29)", "8_e68n29_HDTM1m", FALSE, 100),
            createRasterLayer("HDTM Tile 9 (e67n29)", "9_e67n29_HDTM1m", FALSE, 100)>>]
     >>]

(***************************************************************************)
(* types/layers.ts: isLayerGroup, and walks over a tree.                   *)
(***************************************************************************)
isLayerGroup(node) == "children" \in DOMAIN node

\* every node of a tree, as the sequence of a depth-first walk
RECURSIVE Nodes(_)
Nodes(node) ==
    IF isLayerGroup(node)
    THEN <<node>> \o Flatten([i \in DOMAIN node.children |-> Nodes(node.children[i])])
    ELSE <<node>>

\* collectLayerIds that takes the ids of the groups it walks through as well
RECURSIVE collectNodeIds(_)
collectNodeIds(node) ==
    IF isLayerGroup(node)
    THEN <<node.id>>
         \o Flatten([i \in DOMAIN node.children |-> collectNodeIds(node.children[i])])
    ELSE <<node.id>>

\* collectLayerIds that goes into expanded groups only
RECURSIVE collectLayerIdsOfExpanded(_)
collectLayerIdsOfExpanded(node) ==
    IF isLayerGroup(node)
    THEN Flatten([i \in DOMAIN node.children |->
                     IF isLayerGroup(node.children[i]) /\ ~node.children[i].expanded
                     THEN <<>>
                     ELSE collectLayerIdsOfExpanded(node.children[i])])
    ELSE <<node.id>>

\* LayerTree: collectLayerIds
RECURSIVE collectLayerIds(_)
collectLayerIds(node) ==
    IF isLayerGroup(node)
    THEN Flatten([i \in DOMAIN node.children |-> collectLayerIds(node.children[i])])
    ELSE <<node.id>>

\* collectVisibleLayerIds that takes the visible groups as well
RECURSIVE collectVisibleNodeIds(_)
collectVisibleNodeIds(node) ==
    (IF node.visible THEN <<node.id>> ELSE <<>>)
    \o (IF isLayerGroup(node)
        THEN Flatten([i \in DOMAIN node.children |->
                         collectVisibleNodeIds(node.children[i])])
        ELSE <<>>)

\* App: collectVisibleLayerIds
RECURSIVE collectVisibleLayerIds(_)
collectVisibleLayerIds(node) ==
    IF isLayerGroup(node)
    THEN Flatten([i \in DOMAIN node.children |-> collectVisibleLayerIds(node.children[i])])
    ELSE IF node.visible THEN <<node.id>> ELSE <<>>

(***************************************************************************)
(* Array.prototype.sort() on ids: the default order is that of the UTF-16  *)
(* code units.  CodeUnitOrder lists every leaf id of the full catalog in   *)
(* that order; these are the only strings the program ever sorts.          *)
(***************************************************************************)
CodeUnitOrder ==
    <<"1_e68n26_HDTM1mV2", "2_e67n26_HDTM1mV3", "3_e68n27_HDTM1mV2",
      "4_e67n27_HDTM1mV2", "5_e69n28_HDTM1m", "6_e68n28_HDTM1m",
      "7_e67n28_HDTM1m", "8_e68n29_HDTM1m", "9_e67n29_HDTM1m",
      "aoi", "canal_network", "dgps_11apr_09aug2025", "drains",
      "sindh_province", "structures", "subcatchments">>
    \o Flatten(Flatten(Flatten(
        [r \in 1..7 |-> [c \in 1..2 |-> [m \in 1..3 |-> [p \in 1..4 |->
            "t3_" \o <<"100", "10", "2.3", "25", "500", "50", "5">>[r] \o "yrs_"
                  \o <<"future", "present">>[c] \o "_"
                  \o <<"breaches", "perfect", "redcapacity">>[m] \o "_"
                  \o <<"duration", "maxdepth", "maxvelocity", "vh">>[p]]]]])))
    \o <<"t3_flood2022_duration", "t3_flood2022_maxdepth",
         "t3_flood2022_maxvelocity", "t3_flood2022_vh">>

CodeUnitRank(id) == CHOOSE i \in DOMAIN CodeUnitOrder : CodeUnitOrder[i] = id

RECURSIVE InsertSorted(_, _)
InsertSorted(sorted, id) ==
    IF sorted = <<>> THEN <<id>>
    ELSE IF CodeUnitRank(id) < CodeUnitRank(Head(sorted)) THEN <<id>> \o sorted
    ELSE <<Head(sorted)>> \o InsertSorted(Tail(sorted), id)

RECURSIVE SortIds(_)
SortIds(ids) ==
    IF ids = <<>> THEN <<>>
    ELSE CHOOSE result \in
             {InsertSorted(rest, Head(ids)) : rest \in {SortIds(Tail(ids))}} : TRUE

(***************************************************************************)
(* LayerTree.handleToggleVisibility: findNode, then the notifications,     *)
(* then setTree.  The handler's effect is the sequence of the calls it     *)
(* issues; `call` numbers the handler invocations of one user event.       *)
(***************************************************************************)
NotFound == [notFound |-> TRUE]

isNull(node) == "notFound" \in DOMAIN node

RECURSIVE findNode(_, _)
RECURSIVE findNodeInChildren(_, _, _)
findNode(node, targetId) ==
    IF node.id = targetId THEN node
    ELSE IF isLayerGroup(node) THEN findNodeInChildren(node.children, 1, targetId)
    ELSE NotFound

findNodeInChildren(children, i, targetId) ==
    IF i > Len(children) THEN NotFound
    ELSE LET found == findNode(children[i], targetId) IN
         IF ~isNull(found) THEN found
         ELSE findNodeInChildren(children, i + 1, targetId)

\* handleToggleVisibility with the local setTree issued before the notifications
handleToggleVisibilityTreeFirst(t, id, visible, call) ==
    LET node == findNode(t, id)
        notify(layerId) ==
            [op |-> "notify", id |-> layerId, visible |-> visible, call |-> call]
        layerIds == collectLayerIds(node)
    IN  IF isNull(node) THEN <<>>
        ELSE <<[op |-> "setTree", id |-> id, visible |-> visible, call |-> call]>>
             \o (IF isLayerGroup(node)
                 THEN [i \in DOMAIN layerIds |-> notify(layerIds[i])]
                 ELSE <<notify(id)>>)

\* handleToggleVisibility without the return on an id that is not found
handleToggleVisibilityUnguarded(t, id, visible, call) ==
    LET node == findNode(t, id)
        notify(layerId) ==
            [op |-> "notify", id |-> layerId, visible |-> visible, call |-> call]
        layerIds == collectLayerIds(node)
    IN  (IF isNull(node) THEN <<notify(id)>>
         ELSE IF isLayerGroup(node)
         THEN [i \in DOMAIN layerIds |-> notify(layerIds[i])]
         ELSE <<notify(id)>>)
        \o <<[op |-> "setTree", id |-> id, visible |-> visible, call |-> call]>>

handleToggleVisibility(t, id, visible, call) ==
    LET node == findNode(t, id)
        notify(layerId) ==
            [op |-> "notify", id |-> layerId, visible |-> visible, call |-> call]
        layerIds == collectLayerIds(node)
    IN  IF isNull(node) THEN <<>>
        ELSE (IF isLayerGroup(node)
              THEN [i \in DOMAIN layerIds |-> notify(layerIds[i])]
              ELSE <<notify(id)>>)
             \o <<[op |-> "setTree", id |-> id, visible |-> visible, call |-> call]>>

\* the updater given to setTree by handleToggleVisibility
RECURSIVE checkChildVisible(_, _, _)
checkChildVisible(n, id, visible) ==
    IF n.id = id THEN visible
    ELSE IF isLayerGroup(n)
    THEN \E i \in DOMAIN n.children : checkChildVisible(n.children[i], id, visible)
    ELSE n.visible

RECURSIVE updateVisibility(_, _, _)
updateVisibility(node, id, visible) ==
    IF node.id = id THEN [node EXCEPT !.visible = visible]
    ELSE IF isLayerGroup(node)
    THEN LET hasVisibleChildren ==
                 \E i \in DOMAIN node.children :
                     LET child == node.children[i] IN
                     IF child.id = id THEN visible
                     ELSE IF isLayerGroup(child)
                     THEN checkChildVisible(child, id, visible)
                     ELSE child.visible
         IN  [node EXCEPT
                 !.visible = hasVisibleChildren,
                 !.children = [i \in DOMAIN node.children |->
                                  updateVisibility(node.children[i], id, visible)]]
    ELSE node

\* syncVisibility that opens every group it walks through
RECURSIVE syncVisibilityExpanding(_, _)
syncVisibilityExpanding(node, ids) ==
    IF isLayerGroup(node)
    THEN [node EXCEPT !.expanded = TRUE,
                      !.children = [i \in DOMAIN node.children |->
                                       syncVisibilityExpanding(node.children[i], ids)]]
    ELSE [node EXCEPT !.visible = (node.id \in Range(ids))]

\* syncVisibility that also writes each group's flag, from the flags its
\* children had before the sync (a stale read)
RECURSIVE syncVisibilityStaleGroups(_, _)
syncVisibilityStaleGroups(node, ids) ==
    IF isLayerGroup(node)
    THEN [node EXCEPT
             !.children = [i \in DOMAIN node.children |->
                              syncVisibilityStaleGroups(node.children[i], ids)],
             !.visible = \E i \in DOMAIN node.children : node.children[i].visible]
    ELSE [node EXCEPT !.visible = (node.id \in Range(ids))]

\* the updater given to setTree by the sync effect; ids is the Set it closed over
RECURSIVE syncVisibility(_, _)
syncVisibility(node, ids) ==
    IF isLayerGroup(node)
    THEN [node EXCEPT !.children = [i \in DOMAIN node.children |->
                                       syncVisibility(node.children[i], ids)]]
    ELSE [node EXCEPT !.visible = (node.id \in Range(ids))]

\* App.handleLayerVisibilityChange: the updater given to setVisibleLayerIds
handleLayerVisibilityChange(prev, id, visible) ==
    IF visible
    THEN IF id \in Range(prev) THEN prev ELSE Append(prev, id)
    ELSE SelectSeq(prev, LAMBDA x : x # id)

(***************************************************************************)
(* LayerTree: updateNodeInTree, expandAll, collapseAll, isClimateGroup.    *)
(* The two updaters the program gives to updateNodeInTree both have the    *)
(* form (node) => ({ ...node, field: value }); an updater is held as the   *)
(* field and the value.  A node without the field gets it.                 *)
(***************************************************************************)
applyUpdater(node, updater) ==
    IF updater.field \in DOMAIN node
    THEN [node EXCEPT ![updater.field] = updater.value]
    ELSE With(node, updater.field, updater.value)

RECURSIVE updateChildren(_, _, _)
updateChildren(children, nodeId, updater) ==
    [i \in DOMAIN children |->
        LET child == children[i] IN
        IF child.id = nodeId THEN applyUpdater(child, updater)
        ELSE IF isLayerGroup(child)
        THEN [child EXCEPT !.children = updateChildren(child.children, nodeId, updater)]
        ELSE child]

updateNodeInTree(t, nodeId, updater) ==
    IF t.id = nodeId THEN applyUpdater(t, updater)
    ELSE [t EXCEPT !.children = updateChildren(t.children, nodeId, updater)]

\* LayerTree.handleOpacityChange: the notification to the App, then setTree
handleOpacityChange(id, opacity) ==
    <<[op |-> "notifyOpacity", id |-> id, opacity |-> opacity],
      [op |-> "setTreeOpacity", id |-> id, opacity |-> opacity]>>

\* App.handleLayerOpacityChange: the updater given to setLayerOpacities
handleLayerOpacityChange(prev, id, opacity) == With(prev, id, opacity)

RECURSIVE expandAll(_)
expandAll(t) ==
    [t EXCEPT
        !.expanded = TRUE,
        !.children = [i \in DOMAIN t.children |->
                         IF isLayerGroup(t.children[i]) THEN expandAll(t.children[i])
                         ELSE t.children[i]]]

\* collapseAll that collapses the group it is given too, the root included
RECURSIVE collapseAllWithRoot(_)
collapseAllWithRoot(t) ==
    [t EXCEPT
        !.expanded = FALSE,
        !.children = [i \in DOMAIN t.children |->
                         IF isLayerGroup(t.children[i])
                         THEN collapseAllWithRoot(t.children[i])
                         ELSE t.children[i]]]

RECURSIVE collapseAll(_)
collapseAll(t) ==
    [t EXCEPT
        !.expanded = TRUE,
        !.children = [i \in DOMAIN t.children |->
                         IF isLayerGroup(t.children[i])
                         THEN [collapseAll(t.children[i]) EXCEPT !.expanded = FALSE]
                         ELSE t.children[i]]]

isClimateGroup(node) == node.id = "present_climate" \/ node.id = "future_climate"

(***************************************************************************)
(* React: a render applies the queued updaters in the order they were      *)
(* queued, the App's state before the LayerTree's.  Each updater is given  *)
(* the value the one before it returned (`next`, a value, not an           *)
(* expression to be evaluated again at every use).                         *)
(***************************************************************************)
RECURSIVE ApplySetUpdates(_, _)
ApplySetUpdates(set, calls) ==
    IF calls = <<>> THEN set
    ELSE LET e == Head(calls) IN
         CHOOSE result \in
             {ApplySetUpdates(next, Tail(calls)) :
                 next \in {IF e.op = "notify"
                           THEN handleLayerVisibilityChange(set, e.id, e.visible)
                           ELSE set}} : TRUE

RECURSIVE ApplyTreeUpdates(_, _)
ApplyTreeUpdates(t, calls) ==
    IF calls = <<>> THEN t
    ELSE LET e == Head(calls) IN
         CHOOSE result \in
             {ApplyTreeUpdates(next, Tail(calls)) :
                 next \in {CASE e.op = "setTree" -> updateVisibility(t, e.id, e.visible)
                             [] e.op = "sync" -> syncVisibility(t, e.ids)
                             [] e.op = "expand" ->
                                    updateNodeInTree(t, e.id,
                                        [field |-> "expanded", value |-> e.expanded])
                             [] e.op = "setTreeOpacity" ->
                                    updateNodeInTree(t, e.id,
                                        [field |-> "opacity", value |-> e.opacity])
                             [] e.op = "expandAll" -> expandAll(t)
                             [] e.op = "collapseAll" -> collapseAll(t)
                             [] OTHER -> t}} : TRUE

RECURSIVE ApplyOpacityUpdates(_, _)
ApplyOpacityUpdates(opacities, calls) ==
    IF calls = <<>> THEN opacities
    ELSE LET e == Head(calls) IN
         CHOOSE result \in
             {ApplyOpacityUpdates(next, Tail(calls)) :
                 next \in {IF e.op = "notifyOpacity"
                           THEN handleLayerOpacityChange(opacities, e.id, e.opacity)
                           ELSE opacities}} : TRUE

HasOp(calls, op) == \E i \in DOMAIN calls : calls[i].op = op

(***************************************************************************)
(* MapViewer: the render adapter.  A layer handle is the TileLayer object  *)
(* made for a leaf; it is named by the leaf and the effect run that made   *)
(* it, so that a handle made again is another handle.  olLayers holds the  *)
(* objects' opacity (in percent) and zIndex.                               *)
(***************************************************************************)
RECURSIVE collectAllLayers(_)
collectAllLayers(node) ==
    IF isLayerGroup(node)
    THEN Flatten([i \in DOMAIN node.children |-> collectAllLayers(node.children[i])])
    ELSE <<node>>

\* App: allLayers, and visibleLayers, the catalog's leaves whose id is in the Set, in catalog
\* order, each with its opacity override if it has one
allLayers == collectAllLayers(layerTree)

\* the visible list with `||` in place of `??`: an override of 0 gives way to the
\* catalog default
visibleLayersOfFalsyOverride(ids, opacities) ==
    LET shown == SelectSeq(allLayers, LAMBDA layer : layer.id \in ids)
    IN  [i \in DOMAIN shown |->
            [shown[i] EXCEPT !.opacity = IF shown[i].id \in DOMAIN opacities
                                            /\ opacities[shown[i].id] # 0
                                         THEN opacities[shown[i].id] ELSE @]]

visibleLayersOf(ids, opacities) ==
    LET shown == SelectSeq(allLayers, LAMBDA layer : layer.id \in ids)
    IN  [i \in DOMAIN shown |->
            [shown[i] EXCEPT !.opacity = IF shown[i].id \in DOMAIN opacities
                                         THEN opacities[shown[i].id] ELSE @]]

Z_INDEX_PRIORITY == [raster |-> 10, polygon |-> 50, line |-> 100, point |-> 150]

\* the priorities with the order upside down: raster on top
getZIndexRasterOnTop(geometryType) ==
    CASE geometryType = "raster" -> 150
      [] geometryType = "polygon" -> 100
      [] geometryType = "line" -> 50
      [] geometryType = "point" -> 10
      [] OTHER -> 50

\* geometryType "undefined" stands for a leaf without the optional field
getZIndexForGeometryType(geometryType) ==
    IF geometryType = "undefined" THEN 50
    ELSE IF geometryType \in DOMAIN Z_INDEX_PRIORITY /\ Z_INDEX_PRIORITY[geometryType] # 0
         THEN Z_INDEX_PRIORITY[geometryType]
         ELSE 50

baseMaps == <<[id |-> "satellite", visible |-> TRUE],
              [id |-> "osm", visible |-> FALSE],
              [id |-> "terrain", visible |-> FALSE]>>

\* the adapter's mutable parts as one value; `calls` collects the setOpacity and
\* setZIndex calls one run of the effect makes on layers it keeps
Adapter ==
    [layerRefs |-> layerRefs, layerOpacitiesRef |-> layerOpacitiesRef,
     olLayers |-> olLayers, mapLayers |-> mapInstance.layers, calls |-> {}]

\* removal that takes the layer off the map but keeps its entry in layerRefs
removeInvisibleFromMapOnly(a, currentLayerIds) ==
    LET gone == DOMAIN a.layerRefs \ currentLayerIds
    IN  [a EXCEPT !.mapLayers = @ \ {a.layerRefs[id] : id \in gone}]

\* "Remove layers that are no longer visible"
removeInvisible(a, currentLayerIds) ==
    LET gone == DOMAIN a.layerRefs \ currentLayerIds
        handles == {a.layerRefs[id] : id \in gone}
    IN  [layerRefs |-> Without(a.layerRefs, gone),
         layerOpacitiesRef |-> Without(a.layerOpacitiesRef, gone),
         olLayers |-> Without(a.olLayers, handles),
         mapLayers |-> a.mapLayers \ handles,
         calls |-> a.calls]

Abs(x) == IF x < 0 THEN 0 - x ELSE x

\* the 0.01 of "Math.abs(previousOpacity - currentOpacity) > 0.01", in percent
OpacityEpsilon == 1

\* addOrUpdateLayer that makes the layer again when the opacity has changed
addOrUpdateLayerRecreating(a, layerInfo, pass) ==
    LET id == layerInfo.id
        zIndex == getZIndexForGeometryType(layerInfo.geometryType)
        wmsLayer == <<id, pass>>
        fresh == [opacity |-> layerInfo.opacity, zIndex |-> zIndex, visible |-> TRUE]
    IN  IF id \notin DOMAIN a.layerRefs
        THEN [layerRefs |-> With(a.layerRefs, id, wmsLayer),
              layerOpacitiesRef |-> With(a.layerOpacitiesRef, id, layerInfo.opacity),
              olLayers |-> With(a.olLayers, wmsLayer, fresh),
              mapLayers |-> a.mapLayers \cup {wmsLayer},
              calls |-> a.calls]
        ELSE IF a.olLayers[a.layerRefs[id]].opacity # layerInfo.opacity
        THEN [layerRefs |-> With(a.layerRefs, id, wmsLayer),
              layerOpacitiesRef |-> With(a.layerOpacitiesRef, id, layerInfo.opacity),
              olLayers |-> With(Without(a.olLayers, {a.layerRefs[id]}), wmsLayer, fresh),
              mapLayers |-> (a.mapLayers \ {a.layerRefs[id]}) \cup {wmsLayer},
              calls |-> a.calls]
        ELSE [a EXCEPT !.olLayers[a.layerRefs[id]].zIndex = zIndex,
                       !.calls = @ \cup {<<"setZIndex", id>>}]

\* addOrUpdateLayer that sets the opacity of a kept layer on every run
addOrUpdateLayerAlwaysSetting(a, layerInfo, pass) ==
    LET id == layerInfo.id
        zIndex == getZIndexForGeometryType(layerInfo.geometryType)
        wmsLayer == <<id, pass>>
    IN  IF id \notin DOMAIN a.layerRefs
        THEN [layerRefs |-> With(a.layerRefs, id, wmsLayer),
              layerOpacitiesRef |-> With(a.layerOpacitiesRef, id, layerInfo.opacity),
              olLayers |-> With(a.olLayers, wmsLayer,
                                [opacity |-> layerInfo.opacity, zIndex |-> zIndex,
                                 visible |-> TRUE]),
              mapLayers |-> a.mapLayers \cup {wmsLayer},
              calls |-> a.calls]
        ELSE [a EXCEPT
                 !.olLayers[a.layerRefs[id]].opacity = layerInfo.opacity,
                 !.olLayers[a.layerRefs[id]].zIndex = zIndex,
                 !.layerOpacitiesRef = With(@, id, layerInfo.opacity),
                 !.calls = @ \cup {<<"setOpacity", id>>, <<"setZIndex", id>>}]

\* addOrUpdateLayer that records in layerOpacitiesRef the opacity it was given on
\* every run, set on the layer or not
addOrUpdateLayerRecordingSeen(a, layerInfo, pass) ==
    LET id == layerInfo.id
        zIndex == getZIndexForGeometryType(layerInfo.geometryType)
    IN  IF id \notin DOMAIN a.layerRefs
        THEN LET wmsLayer == <<id, pass>>
             IN  [layerRefs |-> With(a.layerRefs, id, wmsLayer),
                  layerOpacitiesRef |-> With(a.layerOpacitiesRef, id, layerInfo.opacity),
                  olLayers |-> With(a.olLayers, wmsLayer,
                                    [opacity |-> layerInfo.opacity, zIndex |-> zIndex,
                                     visible |-> TRUE]),
                  mapLayers |-> a.mapLayers \cup {wmsLayer},
                  calls |-> a.calls]
        ELSE LET existingLayer == a.layerRefs[id]
                 changed == \/ id \notin DOMAIN a.layerOpacitiesRef
                            \/ Abs(a.layerOpacitiesRef[id] - layerInfo.opacity)
                                   > OpacityEpsilon
             IN  [a EXCEPT
                     !.olLayers[existingLayer].opacity =
                         IF changed THEN layerInfo.opacity ELSE @,
                     !.olLayers[existingLayer].zIndex = zIndex,
                     !.layerOpacitiesRef = With(@, id, layerInfo.opacity),
                     !.calls = @ \cup {<<"setZIndex", id>>}
                                 \cup (IF changed THEN {<<"setOpacity", id>>} ELSE {})]

\* the body of visibleLayers.forEach: "Add new layers or update existing ones"
addOrUpdateLayer(a, layerInfo, pass) ==
    LET id == layerInfo.id
        zIndex == getZIndexForGeometryType(layerInfo.geometryType)
    IN  IF id \notin DOMAIN a.layerRefs
        THEN LET wmsLayer == <<id, pass>>
             IN  [layerRefs |-> With(a.layerRefs, id, wmsLayer),
                  layerOpacitiesRef |-> With(a.layerOpacitiesRef, id, layerInfo.opacity),
                  olLayers |-> With(a.olLayers, wmsLayer,
                                    [opacity |-> layerInfo.opacity, zIndex |-> zIndex,
                                     visible |-> TRUE]),
                  mapLayers |-> a.mapLayers \cup {wmsLayer},
                  calls |-> a.calls]
        ELSE LET existingLayer == a.layerRefs[id]
                 changed == \/ id \notin DOMAIN a.layerOpacitiesRef
                            \/ Abs(a.layerOpacitiesRef[id] - layerInfo.opacity)
                                   > OpacityEpsilon
             IN  [a EXCEPT
                     !.olLayers[existingLayer].opacity =
                         IF changed THEN layerInfo.opacity ELSE @,
                     !.olLayers[existingLayer].zIndex = zIndex,
                     !.layerOpacitiesRef =
                         IF changed THEN With(@, id, layerInfo.opacity) ELSE @,
                     !.calls = @ \cup {<<"setZIndex", id>>}
                                 \cup (IF changed THEN {<<"setOpacity", id>>} ELSE {})]

RECURSIVE addOrUpdateLayers(_, _, _)
addOrUpdateLayers(a, layers, pass) ==
    IF layers = <<>> THEN a
    ELSE CHOOSE result \in
             {addOrUpdateLayers(next, Tail(layers), pass) :
                 next \in {addOrUpdateLayer(a, Head(layers), pass)}} : TRUE

\* the WMS-layer effect on a live map
reconcile(a, layers, pass) ==
    addOrUpdateLayers(removeInvisible(a, {layers[i].id : i \in DOMAIN layers}), layers, pass)

\* the MapViewer after its first effects: the map made with the base layers, the
\* WMS-layer effect run once on the empty list of the first render
MapMounted ==
    /\ visibleLayers = <<>>
    /\ baseLayerRefs = [b \in {baseMaps[i].id : i \in DOMAIN baseMaps} |->
                           [zIndex |-> -1,
                            visible |-> \E i \in DOMAIN baseMaps :
                                            baseMaps[i].id = b /\ baseMaps[i].visible]]
    /\ mapInstance = [live |-> TRUE, layers |-> {}]
    /\ layerRefs = <<>>
    /\ layerOpacitiesRef = <<>>
    /\ olLayers = <<>>
    /\ passes = 0
    /\ lastPass = [removed |-> {}, added |-> {}, updated |-> {}, calls |-> {}]

\* the application as mounted
Mounted ==
    /\ tree = layerTree
    /\ viewMode = "matrix"
    /\ visibleLayerIds = collectVisibleLayerIds(layerTree)
    /\ prevVisibleIdsRef = <<>>
    /\ pending = <<>>
    /\ phase = "idle"
    /\ selectedClimate = "present"
    /\ selectedParameter = "maxdepth"
    /\ compareMode = "single"
    /\ selectedMaintenance = <<"breaches">>
    /\ events = 0
    /\ lastStep = "init"
    /\ lastToggle = [kind |-> "none"]
    /\ lastSync = [ids |-> <<>>]
    /\ lastAxis = [op |-> "none"]
    /\ layerOpacities = <<>>
    /\ searchQuery = ""
    /\ timeouts = <<>>
    /\ sliderLog = [burst |-> <<>>, delivered |-> [id |-> "none"], recorded |-> <<>>,
                    dropped |-> {}]
    /\ MapMounted

Init == Mounted /\ budget = MaxEvents

(***************************************************************************)
(* types/layers.ts: the enumerations the scenario matrix iterates over.    *)
(***************************************************************************)
returnPeriods == KeptReturnPeriods(<<"2.3", "5", "10", "25", "50", "100", "500">>)

parameters == Take(<<"maxdepth", "maxvelocity", "duration", "vh">>, NumParameters)

maintenanceLevels == <<"breaches", "redcapacity", "perfect">>

climateScenarios == <<"present", "future">>

(***************************************************************************)
(* ScenarioMatrix: buildLayerId and the three toggles.  Each gives the     *)
(* sequence of onLayerToggle(id, visible) calls it makes; onLayerToggle is *)
(* LayerTree.handleToggleVisibility.                                       *)
(***************************************************************************)
buildLayerId(climate, maintenance, returnPeriod, parameter) ==
    "t3_" \o returnPeriod \o "yrs_" \o toLowerCase(climate) \o "_"
          \o toLowerCase(maintenance) \o "_" \o toLowerCase(parameter)

isCellActive(returnPeriod, maintenance) ==
    buildLayerId(selectedClimate, maintenance, returnPeriod, selectedParameter)
        \in Range(visibleLayerIds)

\* toggleCell doing what the row toggle does: every selected maintenance level of
\* the return period is set to the opposite of the row's probe
toggleCellAsRow(returnPeriod, maintenance) ==
    LET cellId(m) == buildLayerId(selectedClimate, m, returnPeriod, selectedParameter)
        anyActive == \E i \in DOMAIN selectedMaintenance :
                         cellId(selectedMaintenance[i]) \in Range(visibleLayerIds)
    IN  [i \in DOMAIN selectedMaintenance |->
            [id |-> cellId(selectedMaintenance[i]), visible |-> ~anyActive]]

\* toggleCell without the single-mode branch that turns the other return periods off
toggleCellNoHide(returnPeriod, maintenance) ==
    LET layerId == buildLayerId(selectedClimate, maintenance, returnPeriod, selectedParameter)
    IN  <<[id |-> layerId, visible |-> ~(layerId \in Range(visibleLayerIds))]>>

toggleCell(returnPeriod, maintenance) ==
    LET layerId == buildLayerId(selectedClimate, maintenance, returnPeriod, selectedParameter)
        isActive == layerId \in Range(visibleLayerIds)
        otherId(rp) == buildLayerId(selectedClimate, maintenance, rp, selectedParameter)
        others == SelectSeq(returnPeriods,
                      LAMBDA rp : otherId(rp) # layerId /\ otherId(rp) \in Range(visibleLayerIds))
    IN  (IF compareMode = "single" /\ Len(selectedMaintenance) = 1
         THEN [i \in DOMAIN others |-> [id |-> otherId(others[i]), visible |-> FALSE]]
         ELSE <<>>)
        \o <<[id |-> layerId, visible |-> ~isActive]>>

\* toggleRow setting the row to its probe instead of the opposite of it
toggleRowToProbe(returnPeriod) ==
    LET anyActive == \E i \in DOMAIN selectedMaintenance :
                         isCellActive(returnPeriod, selectedMaintenance[i])
    IN  [i \in DOMAIN selectedMaintenance |->
            [id |-> buildLayerId(selectedClimate, selectedMaintenance[i],
                                 returnPeriod, selectedParameter),
             visible |-> anyActive]]

toggleRow(returnPeriod) ==
    LET anyActive == \E i \in DOMAIN selectedMaintenance :
                         isCellActive(returnPeriod, selectedMaintenance[i])
    IN  [i \in DOMAIN selectedMaintenance |->
            [id |-> buildLayerId(selectedClimate, selectedMaintenance[i],
                                 returnPeriod, selectedParameter),
             visible |-> ~anyActive]]

toggleColumn(maintenance) ==
    LET anyActive == \E i \in DOMAIN returnPeriods : isCellActive(returnPeriods[i], maintenance)
    IN  [i \in DOMAIN returnPeriods |->
            [id |-> buildLayerId(selectedClimate, maintenance,
                                 returnPeriods[i], selectedParameter),
             visible |-> ~anyActive]]

(***************************************************************************)
(* What is on screen.  A LayerTreeItem renders its children only when its  *)
(* node is expanded; the matrix view lists the items of the non-climate    *)
(* groups below the scenario matrix, the tree view those of every child of *)
(* the root.  The root itself has no item.  The search box is left empty.  *)
(***************************************************************************)
RECURSIVE ItemsOf(_)
ItemsOf(node) ==
    IF isLayerGroup(node) /\ node.expanded
    THEN <<node>> \o Flatten([i \in DOMAIN node.children |-> ItemsOf(node.children[i])])
    ELSE <<node>>

otherGroups(t) ==
    SelectSeq(t.children, LAMBDA child : ~(isLayerGroup(child) /\ isClimateGroup(child)))

\* the search predicate with a group matching by its own name and its
\* children's names alone
filterTreeShallow(node, query) ==
    IF query = "" THEN TRUE
    ELSE LET matchesName(n) == includes(toLowerCase(n.name), toLowerCase(query))
         IN  IF isLayerGroup(node)
             THEN matchesName(node)
                      \/ \E i \in DOMAIN node.children : matchesName(node.children[i])
             ELSE matchesName(node)

\* LayerTree: filterTree
RECURSIVE filterTree(_, _)
filterTree(node, query) ==
    IF query = "" THEN TRUE
    ELSE LET matches == includes(toLowerCase(node.name), toLowerCase(query))
         IN  IF isLayerGroup(node)
             THEN LET childMatches == \E i \in DOMAIN node.children :
                                          filterTree(node.children[i], query)
                  IN  matches \/ childMatches
             ELSE matches

\* the top-level nodes that get a LayerTreeItem: those the search keeps
ItemsIn(t, mode, query) ==
    LET shown == IF mode = "matrix" THEN otherGroups(t) ELSE t.children
        top == SelectSeq(shown, LAMBDA child : filterTree(child, query))
    IN  Range(Flatten([i \in DOMAIN top |-> ItemsOf(top[i])]))

Items == ItemsIn(tree, viewMode, searchQuery)

\* the leaves that have a mounted LayerTreeItem
MountedLeafIds(t, mode, query) ==
    {n.id : n \in {x \in ItemsIn(t, mode, query) : ~isLayerGroup(x)}}

(***************************************************************************)
(* LayerTreeItem: the debounce of the opacity slider.  A timeout is due    *)
(* when DebounceMs have elapsed since its setTimeout; a due timeout runs   *)
(* before anything else happens.                                           *)
(***************************************************************************)
DebounceMs == 50

\* the steps time is advanced by: so many to the debounce window
TicksPerWindow == 2

TickMs == DebounceMs \div TicksPerWindow

TimeoutDue == \E i \in DOMAIN timeouts : timeouts[i].elapsed >= DebounceMs

\* clearTimeout(opacityChangeTimeoutRef.current) of the item of leaf `id`: the ref
\* holds the timeout the item set last
clearTimeout(ts, id) ==
    LET mine == {i \in DOMAIN ts : ts[i].id = id}
    IN  IF mine = {} THEN ts
        ELSE LET k == CHOOSE i \in mine : \A j \in mine : j <= i
             IN  [i \in 1..(Len(ts) - 1) |-> IF i < k THEN ts[i] ELSE ts[i + 1]]

\* the handler without its clearTimeout: every input's timeout stays pending
LayerTreeItem_handleOpacityChangeNoClear(ts, id, value) ==
    Append(ts, [id |-> id, value |-> value, elapsed |-> 0])

\* the handler with one timeout ref for all the items: an input clears the timeout
\* that is pending, whichever item set it
LayerTreeItem_handleOpacityChangeSharedRef(ts, id, value) ==
    <<[id |-> id, value |-> value, elapsed |-> 0]>>

\* LayerTreeItem.handleOpacityChange, on the pending timeouts
LayerTreeItem_handleOpacityChange(ts, id, value) ==
    Append(clearTimeout(ts, id), [id |-> id, value |-> value, elapsed |-> 0])

\* an unmount without the cleanup: the timeouts of the unmounted items stay
unmountWithoutCleanup(ts, mounted) == ts

\* the cleanup of the items that are unmounted: each clears the timeout it holds
unmountCleanup(ts, mounted) == SelectSeq(ts, LAMBDA t : t.id \in mounted)

LogDropped(log, gone) ==
    [log EXCEPT !.burst = Without(@, gone), !.dropped = @ \cup (gone \cap DOMAIN log.burst)]

\* the leaves of a tree, in tree order, as (id, visible)
RECURSIVE LeafFlags(_)
LeafFlags(node) ==
    IF isLayerGroup(node)
    THEN Flatten([i \in DOMAIN node.children |-> LeafFlags(node.children[i])])
    ELSE <<[id |-> node.id, visible |-> node.visible]>>

(***************************************************************************)
(* User events.  Every handler runs to its end in one step and leaves its  *)
(* state updates queued for the next render.                               *)
(***************************************************************************)
UserEvent ==
    /\ phase = "idle"
    /\ ~TimeoutDue
    /\ events < budget
    /\ events' = events + 1
    /\ UNCHANGED <<budget, layerOpacities, searchQuery, mapVars>>

\* one user event that makes the onLayerToggle / onToggleVisibility calls `toggles`
\* (`arg` is what the clicked control stands for: a return period, a maintenance
\* level, or both)
VisibilityEvent(kind, arg, toggles) ==
    LET calls == Flatten([k \in DOMAIN toggles |->
                     handleToggleVisibility(tree, toggles[k].id, toggles[k].visible, k)])
    IN  /\ UserEvent
        /\ pending' = calls
        /\ phase' = IF calls = <<>> THEN "idle" ELSE "render"
        /\ lastStep' = "event"
        /\ lastToggle' =
               [kind |-> kind, arg |-> arg, toggles |-> toggles,
                notifs |-> {<<calls[i].id, calls[i].visible>> :
                               i \in {j \in DOMAIN calls : calls[j].op = "notify"}},
                idsBefore |-> visibleLayerIds, leavesBefore |-> LeafFlags(tree),
                climate |-> selectedClimate, parameter |-> selectedParameter,
                mode |-> compareMode, maintenance |-> selectedMaintenance]
        /\ UNCHANGED <<tree, viewMode, visibleLayerIds, prevVisibleIdsRef, matrixVars,
                       lastSync, lastAxis, sliderVars>>

\* LayerTreeItem.handleVisibilityClick, of one of the items `nodes`
ClickVisibilityOf(nodes) ==
    \E node \in nodes :
        VisibilityEvent(IF isLayerGroup(node) THEN "groupItem" ELSE "leafItem", <<>>,
                        <<[id |-> node.id, visible |-> ~node.visible]>>)

ClickVisibility == ClickVisibilityOf(Items)

\* the matrix cell button (compare mode)
ClickCell ==
    /\ viewMode = "matrix"
    /\ compareMode # "single"
    /\ \E r \in DOMAIN returnPeriods, m \in DOMAIN selectedMaintenance :
           VisibilityEvent("cell", <<returnPeriods[r], selectedMaintenance[m]>>,
                           toggleCell(returnPeriods[r], selectedMaintenance[m]))

\* the row label, and the single-mode row button
ClickRow ==
    /\ viewMode = "matrix"
    /\ \E r \in DOMAIN returnPeriods :
           VisibilityEvent("row", <<returnPeriods[r]>>, toggleRow(returnPeriods[r]))

\* the column header (compare mode)
ClickColumn ==
    /\ viewMode = "matrix"
    /\ compareMode # "single"
    /\ \E m \in DOMAIN selectedMaintenance :
           VisibilityEvent("column", <<selectedMaintenance[m]>>,
                           toggleColumn(selectedMaintenance[m]))

\* the 'Toggle All' button: toggleRow for every return period, each reading the
\* visibleLayers of the render the button belongs to
ClickToggleAll ==
    /\ viewMode = "matrix"
    /\ VisibilityEvent("all", <<>>,
           Flatten([r \in DOMAIN returnPeriods |-> toggleRow(returnPeriods[r])]))

\* the quick-select buttons: the given return periods of every selected
\* maintenance level are switched on
quickSelect(periods) ==
    Flatten([r \in DOMAIN periods |->
        [m \in DOMAIN selectedMaintenance |->
            [id |-> buildLayerId(selectedClimate, selectedMaintenance[m],
                                 periods[r], selectedParameter),
             visible |-> TRUE]]])

QuickSelectAllReturnPeriods ==
    /\ viewMode = "matrix"
    /\ VisibilityEvent("quick", <<>>, quickSelect(returnPeriods))

QuickSelectCommonEvents ==
    /\ viewMode = "matrix"
    /\ VisibilityEvent("quick", <<>>, quickSelect(<<"25", "50", "100">>))

\* an event whose handler only queues LayerTree updates that are no visibility change
TreeEvent(calls) ==
    /\ UserEvent
    /\ pending' = calls
    /\ phase' = "render"
    /\ lastStep' = "event"
    /\ UNCHANGED <<tree, viewMode, visibleLayerIds, prevVisibleIdsRef, matrixVars, histVars,
                   lastAxis, sliderVars>>

\* LayerTree.handleToggleExpand
handleToggleExpand(id, expanded) == <<[op |-> "expand", id |-> id, expanded |-> expanded]>>

\* LayerTreeItem.handleExpandClick, of one of the items `nodes`
ClickExpandOf(nodes) ==
    \E node \in {n \in nodes : isLayerGroup(n)} :
        TreeEvent(handleToggleExpand(node.id, ~node.expanded))

ClickExpand == ClickExpandOf(Items)

\* the Expand and Collapse buttons of the tree view
handleExpandAll ==
    /\ viewMode = "tree"
    /\ TreeEvent(<<[op |-> "expandAll"]>>)

handleCollapseAll ==
    /\ viewMode = "tree"
    /\ TreeEvent(<<[op |-> "collapseAll"]>>)

\* the Matrix / Tree buttons.  Leaving the matrix view unmounts the ScenarioMatrix;
\* coming back mounts a new one, in its initial state.  The two views hold their
\* LayerTreeItems at different places, so every item is unmounted and mounted anew.
setViewMode ==
    /\ UserEvent
    /\ viewMode' = IF viewMode = "matrix" THEN "tree" ELSE "matrix"
    /\ selectedClimate' = "present"
    /\ selectedParameter' = "maxdepth"
    /\ compareMode' = "single"
    /\ selectedMaintenance' = <<"breaches">>
    /\ lastStep' = "event"
    /\ lastAxis' = [op |-> "none"]
    /\ timeouts' = unmountCleanup(timeouts, {})
    /\ sliderLog' = LogDropped(sliderLog, DOMAIN sliderLog.burst)
    /\ UNCHANGED <<tree, visibleLayerIds, prevVisibleIdsRef, pending, phase, histVars>>

\* a selection-axis event of the matrix: no visibility call at all
AxisEvent(op) ==
    /\ viewMode = "matrix"
    /\ UserEvent
    /\ lastStep' = "axis"
    /\ lastAxis' = [op |-> op, mode |-> compareMode, maintenance |-> selectedMaintenance]
    /\ UNCHANGED <<tree, viewMode, visibleLayerIds, prevVisibleIdsRef, pending, phase, histVars,
                   sliderVars>>

\* ToggleGroup onValueChange={(v) => v && setSelectedClimate(v)}
SelectClimate ==
    /\ AxisEvent("climate")
    /\ \E c \in Range(climateScenarios) \ {selectedClimate} : selectedClimate' = c
    /\ UNCHANGED <<selectedParameter, compareMode, selectedMaintenance>>

\* onClick={() => setSelectedParameter(param.value)}
SelectParameter ==
    /\ AxisEvent("parameter")
    /\ \E p \in Range(parameters) : selectedParameter' = p
    /\ UNCHANGED <<selectedClimate, compareMode, selectedMaintenance>>

\* handleMaintenanceToggle toggling individually in single mode too
handleMaintenanceToggleAnyMode ==
    /\ AxisEvent("maintenance")
    /\ \E m \in Range(maintenanceLevels) :
           selectedMaintenance' =
               IF m \in Range(selectedMaintenance)
               THEN SelectSeq(selectedMaintenance, LAMBDA x : x # m)
               ELSE Append(selectedMaintenance, m)
    /\ UNCHANGED <<selectedClimate, selectedParameter, compareMode>>

handleMaintenanceToggle ==
    /\ AxisEvent("maintenance")
    /\ \E m \in Range(maintenanceLevels) :
           selectedMaintenance' =
               IF compareMode = "single" THEN <<m>>
               ELSE IF m \in Range(selectedMaintenance)
               THEN SelectSeq(selectedMaintenance, LAMBDA x : x # m)
               ELSE Append(selectedMaintenance, m)
    /\ UNCHANGED <<selectedClimate, selectedParameter, compareMode>>

\* handleCompareModeChange that also hides what is visible when the mode changes
handleCompareModeChangeHiding ==
    /\ viewMode = "matrix"
    /\ UserEvent
    /\ lastStep' = "axis"
    /\ lastAxis' = [op |-> "mode", mode |-> compareMode, maintenance |-> selectedMaintenance]
    /\ \E mode \in {"single", "all"} :
           /\ compareMode' = mode
           /\ selectedMaintenance' =
                  IF mode = "single"
                  THEN <<IF selectedMaintenance # <<>> THEN selectedMaintenance[1]
                         ELSE "breaches">>
                  ELSE <<"breaches", "redcapacity", "perfect">>
    /\ pending' = [i \in DOMAIN visibleLayerIds |->
                      [op |-> "notify", id |-> visibleLayerIds[i], visible |-> FALSE,
                       call |-> i]]
    /\ phase' = IF visibleLayerIds = <<>> THEN "idle" ELSE "render"
    /\ UNCHANGED <<tree, viewMode, visibleLayerIds, prevVisibleIdsRef, histVars,
                   selectedClimate, selectedParameter, sliderVars>>

\* handleCompareModeChange collapsing to the default instead of the first selected
handleCompareModeChangeToDefault ==
    /\ AxisEvent("mode")
    /\ \E mode \in {"single", "all"} :
           /\ compareMode' = mode
           /\ selectedMaintenance' =
                  IF mode = "single" THEN <<"breaches">>
                  ELSE <<"breaches", "redcapacity", "perfect">>
    /\ UNCHANGED <<selectedClimate, selectedParameter>>

handleCompareModeChange ==
    /\ AxisEvent("mode")
    /\ \E mode \in {"single", "all"} :
           /\ compareMode' = mode
           /\ selectedMaintenance' =
                  IF mode = "single"
                  THEN <<IF selectedMaintenance # <<>> THEN selectedMaintenance[1]
                         ELSE "breaches">>
                  ELSE <<"breaches", "redcapacity", "perfect">>
    /\ UNCHANGED <<selectedClimate, selectedParameter>>

(***************************************************************************)
(* React's render of the queued updates, and the LayerTree's sync effect.  *)
(* The render includes what the commit runs at once: the cleanup of the    *)
(* LayerTreeItems that are no longer rendered and, when the App made a new *)
(* visibleLayers (a new Set or a new opacity Map), the MapViewer's         *)
(* WMS-layer effect on it.                                                 *)
(***************************************************************************)
\* one run of the MapViewer's WMS-layer effect, given the list `list`
RunWmsEffect(list) ==
    \E a \in {IF mapInstance.live THEN reconcile(Adapter, list, passes + 1) ELSE Adapter} :
        /\ visibleLayers' = list
        /\ passes' = passes + 1
        /\ layerRefs' = a.layerRefs
        /\ layerOpacitiesRef' = a.layerOpacitiesRef
        /\ olLayers' = a.olLayers
        /\ mapInstance' = [mapInstance EXCEPT !.layers = a.mapLayers]
        /\ lastPass' =
               [removed |-> mapInstance.layers \ a.mapLayers,
                added |-> a.mapLayers \ mapInstance.layers,
                updated |-> {id \in DOMAIN layerRefs \cap DOMAIN a.layerRefs :
                                /\ a.layerRefs[id] = layerRefs[id]
                                /\ a.olLayers[layerRefs[id]].opacity
                                       # olLayers[layerRefs[id]].opacity},
                calls |-> a.calls]
        /\ UNCHANGED baseLayerRefs

Render ==
    /\ phase = "render"
    /\ visibleLayerIds' = ApplySetUpdates(visibleLayerIds, pending)
    /\ tree' = ApplyTreeUpdates(tree, pending)
    /\ layerOpacities' = ApplyOpacityUpdates(layerOpacities, pending)
    /\ pending' = <<>>
    \* setVisibleLayerIds always returns a new Set: the effect's dependency changed
    /\ phase' = IF HasOp(pending, "notify") THEN "effect" ELSE "idle"
    /\ lastStep' = IF HasOp(pending, "sync") THEN "sync"
                   ELSE IF HasOp(pending, "expandAll") THEN "expandAll"
                   ELSE IF HasOp(pending, "collapseAll") THEN "collapseAll"
                   ELSE "render"
    /\ lastSync' = IF HasOp(pending, "sync") THEN [ids |-> pending[1].ids] ELSE lastSync
    /\ IF timeouts = <<>>
       THEN UNCHANGED sliderVars
       ELSE LET mounted == MountedLeafIds(tree', viewMode, searchQuery)
            IN  /\ timeouts' = unmountCleanup(timeouts, mounted)
                /\ sliderLog' = LogDropped(sliderLog, Range([i \in DOMAIN timeouts |-> timeouts[i].id]) \ mounted)
    /\ IF HasOp(pending, "notify") \/ HasOp(pending, "notifyOpacity")
       THEN \E list \in {visibleLayersOf(Range(visibleLayerIds'), layerOpacities')} :
                RunWmsEffect(list)
       ELSE UNCHANGED mapVars
    /\ UNCHANGED <<viewMode, prevVisibleIdsRef, matrixVars, events, lastToggle, lastAxis,
                   budget, searchQuery>>

\* the comparison of the two sorted arrays by reference: always different
idsChangedByReference(currentIds, prevIds) == TRUE

idsChanged(currentIds, prevIds) ==
    \/ Len(currentIds) # Len(prevIds)
    \/ \E i \in DOMAIN currentIds : currentIds[i] # prevIds[i]

\* a sync effect that compares by reference and notifies the owner of the Set of
\* the first id it was given
EffectNotifying ==
    /\ phase = "effect"
    /\ prevVisibleIdsRef' = SortIds(visibleLayerIds)
    /\ pending' = <<[op |-> "sync", ids |-> visibleLayerIds]>>
                    \o (IF visibleLayerIds = <<>> THEN <<>>
                        ELSE <<[op |-> "notify", id |-> visibleLayerIds[1],
                                visible |-> TRUE, call |-> 1]>>)
    /\ phase' = "render"
    /\ lastStep' = "effect"
    /\ UNCHANGED <<tree, viewMode, visibleLayerIds, matrixVars, events, histVars, lastAxis,
                   budget, layerOpacities, searchQuery, sliderVars, mapVars>>

Effect ==
    /\ phase = "effect"
    /\ LET currentIds == SortIds(visibleLayerIds)
           changed == idsChanged(currentIds, prevVisibleIdsRef)
       IN  /\ prevVisibleIdsRef' = IF changed THEN currentIds ELSE prevVisibleIdsRef
           /\ pending' = IF changed THEN <<[op |-> "sync", ids |-> visibleLayerIds]>>
                         ELSE <<>>
           /\ phase' = IF changed THEN "render" ELSE "idle"
           /\ lastStep' = IF changed THEN "effect" ELSE "skip"
    /\ UNCHANGED <<tree, viewMode, visibleLayerIds, matrixVars, events, histVars, lastAxis,
                   budget, layerOpacities, searchQuery, sliderVars, mapVars>>

(***************************************************************************)
(* The opacity slider of a visible leaf's item, time, and the timeouts.    *)
(***************************************************************************)
\* the slider positions a behaviour takes (the slider has steps of 5 percent)
SliderValues == {0, 50}

\* <Slider onValueChange> of the item of a visible leaf among `ids`
SliderInputAmong(ids) ==
    \E node \in {n \in Items : ~isLayerGroup(n) /\ n.visible /\ n.id \in ids},
       value \in SliderValues :
        /\ UserEvent
        /\ timeouts' = LayerTreeItem_handleOpacityChange(timeouts, node.id, value)
        /\ sliderLog' =
               [sliderLog EXCEPT
                   !.burst = With(@, node.id,
                                  (IF node.id \in DOMAIN @ THEN @[node.id] ELSE <<>>)
                                      \o <<value>>),
                   !.dropped = @ \ {node.id}]
        /\ lastStep' = "slider"
        /\ UNCHANGED <<tree, viewMode, visibleLayerIds, prevVisibleIdsRef, pending, phase,
                       matrixVars, histVars, lastAxis>>

\* time passes while no timeout is due
Tick ==
    /\ phase = "idle"
    /\ timeouts # <<>>
    /\ ~TimeoutDue
    /\ timeouts' = [i \in DOMAIN timeouts |->
                       [timeouts[i] EXCEPT !.elapsed = @ + TickMs]]
    /\ UNCHANGED <<tree, viewMode, visibleLayerIds, prevVisibleIdsRef, pending, phase,
                   matrixVars, events, lastStep, histVars, lastAxis, budget,
                   layerOpacities, searchQuery, sliderLog, mapVars>>

\* the oldest due timeout runs: onOpacityChange(node.id, value)
TimeoutFires ==
    /\ phase = "idle"
    /\ TimeoutDue
    /\ LET k == CHOOSE i \in DOMAIN timeouts :
                    /\ timeouts[i].elapsed >= DebounceMs
                    /\ \A j \in 1..(i - 1) : timeouts[j].elapsed < DebounceMs
           t == timeouts[k]
       IN  /\ pending' = handleOpacityChange(t.id, t.value)
           /\ timeouts' = [i \in 1..(Len(timeouts) - 1) |->
                              IF i < k THEN timeouts[i] ELSE timeouts[i + 1]]
           /\ sliderLog' =
                  [sliderLog EXCEPT
                      !.delivered = [id |-> t.id, value |-> t.value, elapsed |-> t.elapsed,
                                     burst |-> IF t.id \in DOMAIN sliderLog.burst
                                               THEN sliderLog.burst[t.id] ELSE <<>>],
                      !.recorded = With(@, t.id, t.value),
                      !.burst = Without(@, {t.id})]
    /\ phase' = "render"
    /\ lastStep' = "timeout"
    /\ UNCHANGED <<tree, viewMode, visibleLayerIds, prevVisibleIdsRef, matrixVars, events,
                   histVars, lastAxis, budget, layerOpacities, searchQuery, mapVars>>

Next ==
    \/ ClickVisibility
    \/ ClickCell
    \/ ClickRow
    \/ ClickColumn
    \/ ClickToggleAll
    \/ QuickSelectAllReturnPeriods
    \/ QuickSelectCommonEvents
    \/ ClickExpand
    \/ handleExpandAll
    \/ handleCollapseAll
    \/ setViewMode
    \/ SelectClimate
    \/ SelectParameter
    \/ handleMaintenanceToggle
    \/ handleCompareModeChange
    \/ Render
    \/ Effect

Spec == Init /\ [][Next]_vars

(***************************************************************************)
(* The controls that toggle visibility, in either view and either compare  *)
(* mode, under React's scheduling: React runs every render it has          *)
(* scheduled and, after a render that changed an effect's dependency, that *)
(* effect.                                                                 *)
(***************************************************************************)
NextLive ==
    \/ ClickVisibility
    \/ ClickCell
    \/ ClickRow
    \/ ClickColumn
    \/ ClickToggleAll
    \/ QuickSelectAllReturnPeriods
    \/ QuickSelectCommonEvents
    \/ handleCompareModeChange
    \/ setViewMode
    \/ Render
    \/ Effect

LiveSpec == Init /\ [][NextLive]_vars /\ WF_vars(Render) /\ WF_vars(Effect)

(***************************************************************************)
(* The scenario matrix's toggleCell on its own.  The grid calls toggleCell *)
(* from the compare-mode cells only; here the function is called in every *)
(* mode, for a cell of a selected maintenance level, next to the row       *)
(* toggle and the selection axes that set its inputs up.                   *)
(***************************************************************************)
CallToggleCell ==
    /\ viewMode = "matrix"
    /\ \E r \in DOMAIN returnPeriods, m \in DOMAIN selectedMaintenance :
           VisibilityEvent("cell", <<returnPeriods[r], selectedMaintenance[m]>>,
                           toggleCell(returnPeriods[r], selectedMaintenance[m]))

NextCell ==
    \/ CallToggleCell
    \/ ClickRow
    \/ SelectClimate
    \/ handleMaintenanceToggle
    \/ handleCompareModeChange
    \/ Render
    \/ Effect

CellSpec == Init /\ [][NextCell]_vars

(***************************************************************************)
(* The MapViewer on its own, given any visible list over four leaves of    *)
(* the catalog, one of each kind: the lists the App passes (catalog order, *)
(* the raster leaf with or without an opacity override) and the same lists *)
(* in reverse order.                                                       *)
(***************************************************************************)
MapLeafIds ==
    {"t3_25yrs_present_breaches_maxdepth", "structures", "canal_network",
     "dgps_11apr_09aug2025"}

OpacityOverrides ==
    {<<>>, [id \in {"t3_25yrs_present_breaches_maxdepth"} |-> 50]}

Reverse(list) == [i \in DOMAIN list |-> list[Len(list) + 1 - i]]

VisibleLists ==
    LET shown == {visibleLayersOf(ids, opacities) :
                     ids \in SUBSET MapLeafIds, opacities \in OpacityOverrides}
    IN  shown \cup {Reverse(list) : list \in shown}

\* useEffect(..., [visibleLayers]): the WMS-layer effect after a render that
\* made a new visibleLayers
ReconcileEffect ==
    /\ passes < MaxPasses
    /\ \E list \in VisibleLists : RunWmsEffect(list)
    /\ UNCHANGED appVars

switchBaseMap ==
    /\ \E baseMapId \in DOMAIN baseLayerRefs :
           baseLayerRefs' = [id \in DOMAIN baseLayerRefs |->
                                [baseLayerRefs[id] EXCEPT !.visible = (id = baseMapId)]]
    /\ UNCHANGED <<visibleLayers, mapInstance, layerRefs, layerOpacitiesRef, olLayers,
                   passes, lastPass, appVars>>

NextMap ==
    \/ ReconcileEffect
    \/ switchBaseMap

MapSpec == Init /\ [][NextMap]_vars

(***************************************************************************)
(* The opacity sliders.  Spec leaves the sliders out; here the user works  *)
(* with the items of the Structures group alone: the group's item, and the *)
(* items and sliders of its leaves Structures and Canal Network.           *)
(***************************************************************************)
\* user events per behaviour with the sliders
MaxSliderEvents == 5

SliderNodeIds == {"structures", "canal_network"}

SliderItems == {n \in Items : n.id \in SliderNodeIds}

SliderClickVisibility == ClickVisibilityOf(SliderItems)

SliderClickExpand == ClickExpandOf(SliderItems)

SliderInput == SliderInputAmong(SliderNodeIds)

InitSlider == Mounted /\ budget = MaxSliderEvents

NextSlider ==
    \/ SliderClickVisibility
    \/ SliderClickExpand
    \/ SliderInput
    \/ Tick
    \/ TimeoutFires
    \/ Render
    \/ Effect

SliderSpec == InitSlider /\ [][NextSlider]_vars

(***************************************************************************)
(* The LayerTree's callbacks called with any id: the id of a group, of a   *)
(* leaf, of a group and a leaf at once, and of no node (the callbacks take *)
(* a string; the matrix builds the ids it passes).                         *)
(***************************************************************************)
\* callback calls per behaviour
MaxCalls == 2

CallIds == {"survey", "structures", "canal_network", "no_such_layer"}

\* onToggleVisibility / onLayerToggle: handleToggleVisibility(id, visible)
CallToggleVisibility ==
    \E id \in CallIds, visible \in BOOLEAN :
        VisibilityEvent("call", <<id>>, <<[id |-> id, visible |-> visible]>>)

\* onToggleExpand: handleToggleExpand(id, expanded)
CallToggleExpand ==
    \E id \in CallIds, expanded \in BOOLEAN :
        TreeEvent(handleToggleExpand(id, expanded))

\* onOpacityChange: handleOpacityChange(id, opacity)
CallOpacityChange ==
    \E id \in CallIds, opacity \in SliderValues :
        TreeEvent(handleOpacityChange(id, opacity))

InitCalls == Mounted /\ budget = MaxCalls

NextCalls ==
    \/ CallToggleVisibility
    \/ CallToggleExpand
    \/ CallOpacityChange
    \/ Render
    \/ Effect

CallSpec == InitCalls /\ [][NextCalls]_vars

(***************************************************************************)
(* The expand controls on their own, for longer sequences of Expand,       *)
(* Collapse and expand toggles.                                            *)
(***************************************************************************)
\* user events per behaviour with the expand controls
MaxExpandEvents == 4

InitExpand == Mounted /\ budget = MaxExpandEvents

NextExpand ==
    \/ setViewMode
    \/ ClickExpand
    \/ handleExpandAll
    \/ handleCollapseAll
    \/ Render

ExpandSpec == InitExpand /\ [][NextExpand]_vars

(***************************************************************************)
(* The search box.  Spec leaves it empty; here the user types queries and  *)
(* works with the items the search keeps.                                  *)
(***************************************************************************)
\* user events per behaviour with the search box
MaxSearchEvents == 2

\* the texts a behaviour types into the search box
Queries == {"", "25 Y", "depth", "CANAL", "zz"}

\* <Input onChange>: setSearchQuery(e.target.value); the items of the top-level
\* groups the new query filters out are unmounted
setSearchQuery ==
    \E query \in Queries \ {searchQuery} :
        /\ phase = "idle"
        /\ ~TimeoutDue
        /\ events < budget
        /\ events' = events + 1
        /\ searchQuery' = query
        /\ lastStep' = "event"
        /\ LET mounted == MountedLeafIds(tree, viewMode, query)
           IN  /\ timeouts' = unmountCleanup(timeouts, mounted)
               /\ sliderLog' = LogDropped(sliderLog,
                                 Range([i \in DOMAIN timeouts |-> timeouts[i].id]) \ mounted)
        /\ UNCHANGED <<tree, viewMode, visibleLayerIds, prevVisibleIdsRef, pending, phase,
                       matrixVars, histVars, lastAxis, budget, layerOpacities, mapVars>>

InitSearch == Mounted /\ budget = MaxSearchEvents

NextSearch ==
    \/ setSearchQuery
    \/ setViewMode
    \/ ClickVisibility
    \/ ClickExpand
    \/ Render
    \/ Effect

SearchSpec == InitSearch /\ [][NextSearch]_vars

(***************************************************************************)
(* The controls of the layer tree on their own: the view switch, the       *)
(* items' visibility checkboxes and expand arrows, Expand and Collapse.    *)
(***************************************************************************)
\* user events per behaviour with the tree's controls
MaxTreeEvents == 2

InitTree == Mounted /\ budget = MaxTreeEvents

NextTree ==
    \/ setViewMode
    \/ ClickVisibility
    \/ ClickExpand
    \/ handleExpandAll
    \/ handleCollapseAll
    \/ Render
    \/ Effect

TreeSpec == InitTree /\ [][NextTree]_vars

(***************************************************************************)
(* The MapViewer on its own, given any visible list and, now and then, a   *)
(* new onMapClick: the init effect depends on it alone, so React runs the  *)
(* effect's cleanup and then the effect again in one commit.  The cleanup  *)
(* puts null in mapInstance.current; the init makes new base layers and a  *)
(* new Map holding them.  The refs of the WMS layers are touched by        *)
(* neither.                                                                *)
(***************************************************************************)
onMapClickChanges ==
    /\ mapInstance.live
    /\ mapInstance' = [live |-> TRUE, layers |-> {}]
    /\ baseLayerRefs' = [b \in {baseMaps[i].id : i \in DOMAIN baseMaps} |->
                            [zIndex |-> -1,
                             visible |-> \E i \in DOMAIN baseMaps :
                                             baseMaps[i].id = b /\ baseMaps[i].visible]]
    /\ UNCHANGED <<visibleLayers, layerRefs, layerOpacitiesRef, olLayers, passes,
                   lastPass, appVars>>

NextReinit ==
    \/ ReconcileEffect
    \/ onMapClickChanges

ReinitSpec == Init /\ [][NextReinit]_vars

(***************************************************************************)
(* The MapViewer on its own, given visible lists in which the opacity of   *)
(* one leaf moves by one epsilon at a time (opacities are held in percent  *)
(* and the epsilon is one percent: a change of one is the smallest change  *)
(* there is, and the effect does not set it on the layer).                 *)
(***************************************************************************)
\* runs of the WMS-layer effect per behaviour with the drifting opacity
MaxDriftPasses == 4

DriftLeafIds == {"canal_network", "t3_25yrs_present_breaches_maxdepth"}

DriftOpacities == {97, 98, 99, 100}

DriftLists ==
    {visibleLayersOf(ids, [id \in {"canal_network"} |-> opacity]) :
        ids \in SUBSET DriftLeafIds, opacity \in DriftOpacities}

DriftEffect ==
    /\ passes < MaxDriftPasses
    /\ \E list \in DriftLists : RunWmsEffect(list)
    /\ UNCHANGED appVars

NextDrift ==
    \/ DriftEffect
    \/ switchBaseMap

DriftSpec == Init /\ [][NextDrift]_vars

(***************************************************************************)
(* The scenario matrix's selection axes on their own, for longer sequences *)
(* of mode switches and maintenance toggles.                               *)
(***************************************************************************)
InitMatrix == Mounted /\ budget = MaxAxisEvents

NextMatrix ==
    \/ SelectClimate
    \/ SelectParameter
    \/ handleMaintenanceToggle
    \/ handleCompareModeChange

MatrixSpec == InitMatrix /\ [][NextMatrix]_vars

(***************************************************************************)
(* Vocabulary of the properties.                                           *)
(***************************************************************************)
Quiescent == phase = "idle" /\ pending = <<>>

\* a group's derived visibility: some descendant leaf is visible
AnyLeafVisible(node) ==
    LET flags == LeafFlags(node) IN \E i \in DOMAIN flags : flags[i].visible

GroupsOf(node) == {g \in Range(Nodes(node)) : isLayerGroup(g)}

\* project(tree, visibleIds) of the specification
RECURSIVE project(_, _)
project(node, ids) ==
    IF isLayerGroup(node)
    THEN LET children == [i \in DOMAIN node.children |-> project(node.children[i], ids)]
         IN  [node EXCEPT
                 !.children = children,
                 !.visible = \E i \in DOMAIN children : AnyLeafVisible(children[i])]
    ELSE [node EXCEPT !.visible = (node.id \in Range(ids))]

InSet(id, ids) == id \in Range(ids)

\* C1: in every reachable tree, every group's visible flag is the OR of the
\* visible flags of its descendant leaves.
C1_DerivedVisibility ==
    \A g \in GroupsOf(tree) : g.visible = AnyLeafVisible(g)

\* C2: at every quiescent point, projecting the displayed tree from the
\* Visible-ID Set gives the displayed tree.
C2_QuiescentProjection ==
    Quiescent => project(tree, visibleLayerIds) = tree

\* C3: (a) in the calls a visibility event issues, the notifications of each
\* toggle, one for every affected leaf and with the new value, come before that
\* toggle's setTree; (b) the tree never shows a leaf with a visibility other than
\* the one it had before the event unless that (id, visible) was notified.
C3_NotifyBeforeApply ==
    /\ (phase = "render" /\ lastStep = "event") =>
           \A j \in DOMAIN pending :
               pending[j].op = "setTree" =>
                   LET node == findNode(tree, pending[j].id)
                       affected == IF isLayerGroup(node) THEN collectLayerIds(node)
                                   ELSE <<pending[j].id>>
                   IN  \A a \in Range(affected) :
                           \E i \in 1..(j - 1) :
                               pending[i] = [op |-> "notify", id |-> a,
                                             visible |-> pending[j].visible,
                                             call |-> pending[j].call]
    /\ LET before == IF lastToggle.kind = "none" THEN LeafFlags(layerTree)
                     ELSE lastToggle.leavesBefore
           now == LeafFlags(tree)
       IN  /\ Len(now) = Len(before)
           /\ \A i \in DOMAIN now :
                  now[i].visible # before[i].visible =>
                      /\ lastToggle.kind # "none"
                      /\ <<now[i].id, now[i].visible>> \in lastToggle.notifs

\* C3 witness: a group toggle has issued several notifications and its setTree.
C3_Witness ==
    /\ phase = "render"
    /\ lastStep = "event"
    /\ Len(pending) >= 3
    /\ pending[1].op = "notify"
    /\ pending[2].op = "notify"
    /\ pending[Len(pending)].op = "setTree"

\* the node a tree item's toggle resolved to, in the tree as it is now
ToggledNode == findNode(tree, lastToggle.toggles[1].id)

ToggledValue == lastToggle.toggles[1].visible

\* the leaves outside `inside` (a set of ids) are as they were before the event
LeavesOutsideUnchanged(inside) ==
    LET now == LeafFlags(tree)
        ids == Range(visibleLayerIds)
        idsBefore == Range(lastToggle.idsBefore)
    IN  \A i \in DOMAIN now :
            now[i].id \notin inside =>
                /\ now[i] = lastToggle.leavesBefore[i]
                /\ (now[i].id \in ids) = (now[i].id \in idsBefore)

\* C4: once quiescent after the toggle of a group G to v, every descendant leaf
\* of G is v in the Set and in the tree; G, the groups inside G and the
\* ancestors of G have the OR of their subtree; no leaf outside G changed.
C4_GroupToggle ==
    (Quiescent /\ lastToggle.kind \in {"groupItem", "leafItem"}
        /\ ~isNull(ToggledNode) /\ isLayerGroup(ToggledNode)) =>
        LET G == ToggledNode
            v == ToggledValue
            inG == LeafFlags(G)
        IN  /\ \A i \in DOMAIN inG :
                   /\ inG[i].visible = v
                   /\ InSet(inG[i].id, visibleLayerIds) = v
            /\ \A g \in GroupsOf(G) : g.visible = AnyLeafVisible(g)
            /\ \A a \in GroupsOf(tree) :
                   G \in Range(Nodes(a)) => a.visible = AnyLeafVisible(a)
            /\ LeavesOutsideUnchanged(Range(collectLayerIds(G)))

\* C5: a toggle addressed to the id of a leaf L (the click on L's item) issues
\* the one notification (L's id, new value) and, once quiescent, has changed the
\* Set membership and the visible flag of L and of no other leaf.
C5_LeafToggle ==
    lastToggle.kind = "leafItem" =>
        LET id == lastToggle.toggles[1].id
            v == ToggledValue
        IN  /\ lastToggle.notifs = {<<id, v>>}
            /\ Quiescent =>
                   /\ InSet(id, visibleLayerIds) = v
                   /\ LET now == LeafFlags(tree)
                      IN  \A i \in DOMAIN now : now[i].id = id => now[i].visible = v
                   /\ LeavesOutsideUnchanged({id})

\* C6: the tree an external-to-tree sync with the Set S produces has every leaf's
\* visible equal to membership in S and every group's visible equal to the OR of
\* its descendant leaves.
C6_SyncResult ==
    lastStep = "sync" =>
        /\ LET now == LeafFlags(tree)
           IN  \A i \in DOMAIN now : now[i].visible = InSet(now[i].id, lastSync.ids)
        /\ \A g \in GroupsOf(tree) : g.visible = AnyLeafVisible(g)

\* C7: when the sync effect runs with a Set of the same content as the Set of
\* the previous sync, it leaves the tree as it is and queues no tree update.
C7_SetEqualitySkip ==
    [][(phase = "effect" /\ Range(visibleLayerIds) = Range(prevVisibleIdsRef)) =>
           (tree' = tree /\ pending' = <<>> /\ phase' = "idle")]_vars

\* C7 witness: notifications have made a new Set object with the content of the
\* previous sync, the effect has run on it and has skipped.
C7_Witness ==
    /\ lastStep = "skip"
    /\ phase = "idle"
    /\ lastToggle.kind # "none"
    /\ lastToggle.notifs # {}
    /\ Range(visibleLayerIds) = Range(prevVisibleIdsRef)

\* the Sets the idempotence of the sync is probed with
SyncProbeSets == {<<>>, visibleLayerIds, collectLayerIds(tree)}

\* C8: syncing twice with the same Set gives the tree that syncing once gives:
\* for the tree a sync has just produced and the Set it was given, and for every
\* reachable tree (each is the initial one or the result of a render) and every
\* probe Set.
C8_SyncIdempotent ==
    /\ lastStep = "sync" => syncVisibility(tree, lastSync.ids) = tree
    /\ phase # "render" =>
           \A ids \in SyncProbeSets :
               LET once == syncVisibility(tree, ids)
               IN  syncVisibility(once, ids) = once

\* C8 witness: a sync has just been applied and has made a leaf visible.
C8_Witness ==
    /\ lastStep = "sync"
    /\ lastSync.ids # <<>>
    /\ \E i \in DOMAIN LeafFlags(tree) : LeafFlags(tree)[i].visible

\* C9: no two nodes of the tree, groups and leaves together, have the same id.
C9_UniqueIds ==
    \A i, j \in DOMAIN Nodes(tree) : i # j => Nodes(tree)[i].id # Nodes(tree)[j].id

\* every leaf of a tree with the groups above it, root first (ids and names)
RECURSIVE LeafPaths(_, _)
LeafPaths(node, above) ==
    LET here == Append(above, [id |-> node.id, name |-> node.name])
    IN  IF isLayerGroup(node)
        THEN Flatten([i \in DOMAIN node.children |-> LeafPaths(node.children[i], here)])
        ELSE <<here>>

\* the leaf the catalog generated for a combination: in the climate's group, in
\* the maintenance's group, in the parameter's group, the leaf of the return period
IsCatalogLeafOf(path, climate, maintenance, returnPeriod, parameter) ==
    /\ Len(path) = 5
    /\ path[2].id = climate \o "_climate"
    /\ path[3].id = climate \o "_" \o maintenance
    /\ path[4].name = paramLabels(parameter)
    /\ path[5].name = returnPeriod \o " Years"

IsScenarioLeaf(path) ==
    Len(path) = 5 /\ path[2].id \in {"present_climate", "future_climate"}

\* the leaves of the catalog with the groups above them
CatalogPaths == LeafPaths(layerTree, <<>>)

\* for every combination of the matrix's enums, buildLayerId gives the id of
\* exactly one leaf of the catalog, the one generated for that combination; and
\* every generated scenario leaf has the id of a combination
CatalogIdsMatch ==
    LET paths == CatalogPaths
        ids == {buildLayerId(c, m, r, p) :
                   c \in Range(climateScenarios), m \in Range(maintenanceLevels),
                   r \in Range(returnPeriods), p \in Range(parameters)}
    IN  /\ \A c \in Range(climateScenarios), m \in Range(maintenanceLevels),
              r \in Range(returnPeriods), p \in Range(parameters) :
               LET id == buildLayerId(c, m, r, p)
                   hits == {i \in DOMAIN paths : paths[i][Len(paths[i])].id = id}
               IN  /\ Cardinality(hits) = 1
                   /\ \A i \in hits : IsCatalogLeafOf(paths[i], c, m, r, p)
        /\ \A i \in DOMAIN paths :
               IsScenarioLeaf(paths[i]) => paths[i][5].id \in ids

CellId(returnPeriod, maintenance) ==
    buildLayerId(lastToggle.climate, maintenance, returnPeriod, lastToggle.parameter)

\* the notifications queued by the event, in issue order, as (id, visible)
QueuedNotifications ==
    LET notifs == SelectSeq(pending, LAMBDA c : c.op = "notify")
    IN  [k \in DOMAIN notifs |-> <<notifs[k].id, notifs[k].visible>>]

VisibleReturnPeriods(ids) ==
    {rp \in Range(returnPeriods) : InSet(CellId(rp, lastToggle.maintenance[1]), ids)}

\* C12: in single mode with one maintenance selected, a return-period toggle of
\* the matrix grid that starts with at most one return period of the selected
\* combination visible ends, once quiescent, with at most one of them visible.
C12_SingleModeExclusive ==
    (Quiescent /\ lastToggle.kind \in {"row", "cell"} /\ lastToggle.mode = "single"
        /\ Len(lastToggle.maintenance) = 1
        /\ Cardinality(VisibleReturnPeriods(lastToggle.idsBefore)) <= 1) =>
        Cardinality(VisibleReturnPeriods(visibleLayerIds)) <= 1

Members ==
    IF lastToggle.kind = "row"
    THEN [i \in DOMAIN lastToggle.maintenance |->
             CellId(lastToggle.arg[1], lastToggle.maintenance[i])]
    ELSE [i \in DOMAIN returnPeriods |-> CellId(returnPeriods[i], lastToggle.arg[1])]

\* the "any active" probe of that row or column, on the Set the event found
Probe == \E i \in DOMAIN Members : InSet(Members[i], lastToggle.idsBefore)

C15_ModeSwitchSelection ==
    (lastStep = "axis" /\ lastAxis.op = "mode") =>
        /\ (lastAxis.mode = "all" /\ compareMode = "single") =>
               selectedMaintenance =
                   <<IF lastAxis.maintenance = <<>> THEN "breaches"
                     ELSE lastAxis.maintenance[1]>>
        /\ (lastAxis.mode = "single" /\ compareMode = "all") =>
               selectedMaintenance = <<"breaches", "redcapacity", "perfect">>

\* C15 witness: compare-all with every maintenance level switched off has been
\* left for single mode, which selected the default.
C15_Witness ==
    /\ lastStep = "axis"
    /\ lastAxis = [op |-> "mode", mode |-> "all", maintenance |-> <<>>]
    /\ compareMode = "single"
    /\ selectedMaintenance = <<"breaches">>

\* C16: a user event that changes a selection axis of the matrix (mode,
\* maintenance selection, parameter, climate) queues no notification and no other
\* update, and leaves the Visible-ID Set and the tree as they are.
C16_AxisChangeFrame ==
    [][(events' = events + 1 /\ viewMode' = viewMode /\ matrixVars' # matrixVars) =>
           /\ pending' = <<>>
           /\ phase' = "idle"
           /\ visibleLayerIds' = visibleLayerIds
           /\ tree' = tree]_vars

\* C16 witness: the mode has been switched while a layer was visible, and the
\* layer is still visible, in the Set and in the tree.
C16_Witness ==
    /\ lastStep = "axis"
    /\ lastAxis.op = "mode"
    /\ lastAxis.mode # compareMode
    /\ Quiescent
    /\ visibleLayerIds # <<>>
    /\ LET now == LeafFlags(tree)
       IN  \A i \in DOMAIN now : now[i].visible = InSet(now[i].id, visibleLayerIds)

\* C17: the maintenance selection is always a duplicate-free list of maintenance
\* levels, and in single mode it has exactly one element.
C17_SelectionWellFormed ==
    /\ Range(selectedMaintenance) \subseteq Range(maintenanceLevels)
    /\ Cardinality(Range(selectedMaintenance)) = Len(selectedMaintenance)
    /\ compareMode \in {"single", "all"}
    /\ compareMode = "single" => Len(selectedMaintenance) = 1

\* C17 witness: after mode switches and maintenance toggles, single mode holds the
\* one level that was first of a two-element selection of the compare-all mode.
C17_Witness ==
    /\ compareMode = "single"
    /\ selectedMaintenance = <<"redcapacity">>
    /\ lastAxis.op = "mode"
    /\ lastAxis.mode = "all"
    /\ Len(lastAxis.maintenance) = 2

(***************************************************************************)
(* The render adapter.                                                     *)
(***************************************************************************)
ListIds(list) == {list[i].id : i \in DOMAIN list}

Handles == {layerRefs[id] : id \in DOMAIN layerRefs}

\* C18: a run of the WMS-layer effect whose list still holds a leaf X that the
\* list before held leaves X with the handle it had, on the map: whatever else
\* was added or removed, whatever the order of the list, whatever X's opacity.
C18_HandleKept ==
    [][\A X \in DOMAIN layerRefs :
           (passes' = passes + 1 /\ X \in ListIds(visibleLayers) /\ X \in ListIds(visibleLayers')) =>
               /\ X \in DOMAIN layerRefs'
               /\ layerRefs'[X] = layerRefs[X]
               /\ layerRefs[X] \in mapInstance'.layers
               /\ layerRefs[X] \notin lastPass'.removed]_vars

\* C18 witness: the raster leaf has the handle of the first run after a second
\* run that gave it another opacity, removed a handle, added a handle and was
\* given its list in reverse catalog order.
C18_Witness ==
    /\ passes = 2
    /\ "t3_25yrs_present_breaches_maxdepth" \in DOMAIN layerRefs
    /\ layerRefs["t3_25yrs_present_breaches_maxdepth"] = <<"t3_25yrs_present_breaches_maxdepth", 1>>
    /\ lastPass.updated = {"t3_25yrs_present_breaches_maxdepth"}
    /\ lastPass.removed # {}
    /\ lastPass.added # {}
    /\ Len(visibleLayers) >= 2
    /\ visibleLayers[Len(visibleLayers)].id = "t3_25yrs_present_breaches_maxdepth"

\* C19: after a run of the WMS-layer effect on a live map the leaves with a handle
\* are the leaves of the list it was given, each with one handle of its own, and
\* the map holds exactly those handles: what the run removed is in neither, what
\* it added are the handles, made by this run, of the leaves that had none.
C19_HandlesMatchList ==
    (passes > 0 /\ mapInstance.live) =>
        /\ DOMAIN layerRefs = ListIds(visibleLayers)
        /\ \A id1, id2 \in DOMAIN layerRefs : layerRefs[id1] = layerRefs[id2] => id1 = id2
        /\ mapInstance.layers = Handles
        /\ DOMAIN olLayers = Handles
        /\ lastPass.removed \cap (mapInstance.layers \cup Handles) = {}
        /\ lastPass.added = {layerRefs[id] : id \in {x \in DOMAIN layerRefs :
                                                        layerRefs[x][2] = passes}}

\* C19 witness: the second run removed the handle of a leaf that left the list,
\* added one for a leaf that entered it, and kept one.
C19_Witness ==
    /\ passes = 2
    /\ mapInstance.live
    /\ lastPass.removed # {}
    /\ lastPass.added # {}
    /\ \E id \in DOMAIN layerRefs : layerRefs[id][2] = 1
    /\ \A h \in lastPass.removed : h[1] \notin ListIds(visibleLayers)

\* the kind of a leaf of the visible list
KindOf(id) ==
    LET i == CHOOSE j \in DOMAIN visibleLayers : visibleLayers[j].id = id
    IN  visibleLayers[i].geometryType

KindRank(kind) ==
    CASE kind = "raster" -> 1
      [] kind = "polygon" -> 2
      [] kind = "line" -> 3
      [] kind = "point" -> 4
      [] OTHER -> 2

\* C20: after every run the zIndex of a handle depends on the kind of its leaf
\* alone, in the order raster < polygon < line < point, a leaf without kind
\* taking the polygon level; every handle is above every base-map layer.
C20_StackingByKind ==
    /\ \A id1, id2 \in DOMAIN layerRefs :
           LET z1 == olLayers[layerRefs[id1]].zIndex
               z2 == olLayers[layerRefs[id2]].zIndex
           IN  /\ KindRank(KindOf(id1)) < KindRank(KindOf(id2)) => z1 < z2
               /\ KindRank(KindOf(id1)) = KindRank(KindOf(id2)) => z1 = z2
    /\ \A id \in DOMAIN layerRefs, b \in DOMAIN baseLayerRefs :
           baseLayerRefs[b].zIndex < olLayers[layerRefs[id]].zIndex
    /\ \A id \in DOMAIN layerRefs :
           olLayers[layerRefs[id]].zIndex = getZIndexForGeometryType(KindOf(id))
    /\ getZIndexForGeometryType("undefined") = getZIndexForGeometryType("polygon")

\* C20 witness: the four kinds are on the map, given in reverse catalog order (the
\* point leaf first, the raster leaf last), over a base map that was switched.
C20_Witness ==
    /\ passes > 0
    /\ Len(visibleLayers) = 4
    /\ visibleLayers[1].geometryType = "point"
    /\ visibleLayers[4].geometryType = "raster"
    /\ Cardinality(mapInstance.layers) = 4
    /\ baseLayerRefs["osm"].visible

\* the entry of a leaf in a visible list
EntryOf(list, id) == list[CHOOSE i \in DOMAIN list : list[i].id = id]

\* C21: a run of the WMS-layer effect calls setOpacity on the handle a visible
\* leaf already has only if the leaf's opacity differs by more than the epsilon
\* from the opacity that handle has, which is the opacity the adapter remembers
\* for it; it calls setZIndex on that handle in every run.
C21_UpdateInPlace ==
    [][passes' = passes + 1 =>
           \A id \in DOMAIN layerRefs \cap ListIds(visibleLayers') :
               /\ olLayers[layerRefs[id]].opacity = layerOpacitiesRef[id]
               /\ <<"setOpacity", id>> \in lastPass'.calls =>
                      Abs(olLayers[layerRefs[id]].opacity
                              - EntryOf(visibleLayers', id).opacity) > OpacityEpsilon
               /\ <<"setOpacity", id>> \notin lastPass'.calls =>
                      olLayers'[layerRefs[id]].opacity = olLayers[layerRefs[id]].opacity
               /\ <<"setZIndex", id>> \in lastPass'.calls]_vars

\* C21 witness: the second run kept the handles of the raster leaf, whose opacity
\* had changed, and of the polygon leaf, whose opacity had not: setZIndex was
\* called on both, setOpacity on the raster leaf's alone.
C21_Witness ==
    /\ passes = 2
    /\ layerRefs = [id \in {"t3_25yrs_present_breaches_maxdepth", "structures"} |-> <<id, 1>>]
    /\ lastPass.calls = {<<"setOpacity", "t3_25yrs_present_breaches_maxdepth">>,
                         <<"setZIndex", "t3_25yrs_present_breaches_maxdepth">>,
                         <<"setZIndex", "structures">>}

(***************************************************************************)
(* The opacity sliders: debounce, overrides.                               *)
(***************************************************************************)
Last(s) == s[Len(s)]

\* the pending timeouts of the item of leaf `id`
PendingOf(id) == {i \in DOMAIN timeouts : timeouts[i].id = id}

\* the debounce of one leaf's slider: superseded values are not queued (a leaf
\* has at most one pending timeout, every pending timeout is that of an open
\* burst and carries the burst's last input), and the notification that was
\* delivered last came after the window had elapsed since the last input of its
\* burst and carried that input's value
DebounceHolds ==
    /\ \A id \in SliderNodeIds : Cardinality(PendingOf(id)) <= 1
    /\ \A i \in DOMAIN timeouts :
           /\ timeouts[i].id \in DOMAIN sliderLog.burst
           /\ timeouts[i].value = Last(sliderLog.burst[timeouts[i].id])
    /\ sliderLog.delivered.id # "none" =>
           /\ sliderLog.delivered.burst # <<>>
           /\ sliderLog.delivered.value = Last(sliderLog.delivered.burst)
           /\ sliderLog.delivered.elapsed >= DebounceMs
    /\ lastStep = "timeout" =>
           /\ pending = handleOpacityChange(sliderLog.delivered.id, sliderLog.delivered.value)
           /\ sliderLog.delivered.id \notin DOMAIN sliderLog.burst
           /\ PendingOf(sliderLog.delivered.id) = {}

CatalogOpacity(id) == EntryOf(allLayers, id).opacity

\* the opacity a leaf is to be drawn with: the last override notified for its id,
\* the catalog default without one
OpacityDue(id) ==
    IF id \in DOMAIN sliderLog.recorded THEN sliderLog.recorded[id] ELSE CatalogOpacity(id)

\* C23: once the notifications issued so far are applied, every visible leaf is
\* in the list given to the renderer, and the opacity the list gives for it, which
\* is the opacity of its handle on the map, is the most recent override recorded
\* for its id if there is one (also after the leaf was hidden and shown again),
\* and its catalog default opacity otherwise.
C23_OverrideOrDefault ==
    ~(HasOp(pending, "notify") \/ HasOp(pending, "notifyOpacity")) =>
        /\ ListIds(visibleLayers) = Range(visibleLayerIds) \cap ListIds(allLayers)
        /\ \A i \in DOMAIN visibleLayers :
               LET id == visibleLayers[i].id
               IN  /\ visibleLayers[i].opacity = OpacityDue(id)
                   /\ id \in DOMAIN layerRefs
                   /\ olLayers[layerRefs[id]].opacity = OpacityDue(id)

\* C23 witness: Canal Network got the override 0, was hidden and shown again: the
\* handle made for it in the fourth run of the renderer's effect or later has
\* opacity 0, which is not its catalog default; Drains, shown with it, has no
\* override and is drawn with its default.
C23_Witness ==
    /\ Quiescent
    /\ "canal_network" \in DOMAIN sliderLog.recorded
    /\ sliderLog.recorded["canal_network"] = 0
    /\ CatalogOpacity("canal_network") # 0
    /\ "canal_network" \in DOMAIN layerRefs
    /\ layerRefs["canal_network"][2] >= 4
    /\ olLayers[layerRefs["canal_network"]].opacity = 0
    /\ "drains" \in DOMAIN layerRefs
    /\ "drains" \notin DOMAIN sliderLog.recorded
    /\ olLayers[layerRefs["drains"]].opacity = CatalogOpacity("drains")

\* the ids of the groups of a tree
GroupIds(t) == {n.id : n \in {x \in Range(Nodes(t)) : isLayerGroup(x)}}

\* C25: an opacity change addressed to a group id is rejected or is a no-op: no
\* group of the tree carries an opacity value, and no opacity override is
\* recorded under the id of a group.
C25_GroupOpacityRejected ==
    /\ \A n \in Range(Nodes(tree)) : isLayerGroup(n) => "opacity" \notin DOMAIN n
    /\ DOMAIN layerOpacities \cap GroupIds(tree) = {}

\* C24: a visibility toggle addressed to an id that matches no node of the tree
\* (a step of the visibility callback: what it queues, if anything, are
\* notifications and the tree's visibility update) is a silent no-op: the call issues no notification to the owner of the
\* Visible-ID Set and queues no update (no render follows it), and the tree and
\* the Visible-ID Set are unchanged.
C24_UnknownIdToggleNoOp ==
    [][(/\ events' = events + 1
        /\ lastToggle'.kind = "call"
        /\ lastStep' = "event"
        /\ \A i \in DOMAIN pending' : pending'[i].op \in {"notify", "setTree"}
        /\ isNull(findNode(tree, lastToggle'.arg[1])))
       => (/\ lastToggle'.notifs = {}
           /\ pending' = <<>>
           /\ phase' = "idle"
           /\ tree' = tree
           /\ visibleLayerIds' = visibleLayerIds)]_vars

\* C24 witness: after a toggle that made leaves visible, a toggle was addressed
\* to an id no node has; the Set is as the first toggle left it.
C24_Witness ==
    /\ lastStep = "event"
    /\ lastToggle.kind = "call"
    /\ lastToggle.arg = <<"no_such_layer">>
    /\ isNull(findNode(tree, "no_such_layer"))
    /\ events = 2
    /\ lastToggle.idsBefore # <<>>
    /\ visibleLayerIds = lastToggle.idsBefore
    /\ Quiescent

\* the fields of a node other than its children
Strip(node) == [f \in DOMAIN node \ {"children"} |-> node[f]]

\* the update-by-id a render is about to apply, if it is about to apply one
IsUpdateById(e) == e.op \in {"expand", "setTreeOpacity"}

UpdaterOf(e) ==
    IF e.op = "expand" THEN [field |-> "expanded", value |-> e.expanded]
    ELSE [field |-> "opacity", value |-> e.opacity]

\* C26: a render that applies an update-by-id (an expand toggle or an opacity
\* write) gives the transform's result at every node with the matching id and
\* leaves the fields of every other node as they were; with an id no node has,
\* the tree it gives is equal to the tree it was given.
C26_UpdateNodeById ==
    [][\A k \in DOMAIN pending :
           (phase = "render" /\ IsUpdateById(pending[k])) =>
               LET e == pending[k]
                   before == Nodes(tree)
                   after == Nodes(tree')
               IN  /\ Len(after) = Len(before)
                   /\ \A i \in DOMAIN before :
                          Strip(after[i]) =
                              IF before[i].id = e.id
                              THEN Strip(applyUpdater(before[i], UpdaterOf(e)))
                              ELSE Strip(before[i])
                   /\ (\A i \in DOMAIN before : before[i].id # e.id) => tree' = tree]_vars

\* the groups of a tree below its root
GroupsBelowRoot(t) == {n \in Range(Tail(Nodes(t))) : isLayerGroup(n)}

\* C27: a render that applies collapseAll leaves the root expanded and every
\* other group, at every depth, collapsed; a render that applies expandAll
\* leaves every group, the root included, expanded; and the root is expanded
\* before and after every step of any sequence of the expand controls.
C27_RootStaysExpanded ==
    [][/\ tree.expanded
       /\ tree'.expanded
       /\ (phase = "render" /\ HasOp(pending, "collapseAll")) =>
              \A g \in GroupsBelowRoot(tree') : ~g.expanded
       /\ (phase = "render" /\ HasOp(pending, "expandAll")) =>
              \A g \in GroupsBelowRoot(tree') : g.expanded]_vars

\* C27 witness: Collapse was applied after Expand and one more event: the root is
\* expanded and the groups below it, those three levels down too, are collapsed.
C27_Witness ==
    /\ lastStep = "collapseAll"
    /\ events = 4
    /\ tree.expanded
    /\ \A g \in GroupsBelowRoot(tree) : ~g.expanded
    /\ \E g \in GroupsBelowRoot(tree) : g.id = "Present_Breaches_maxdepth"

\* name contains query, letters compared without regard to case, place by place
ContainsIgnoringCase(name, query) ==
    \E i \in 0..(Len(name) - Len(query)) :
        \A k \in 1..Len(query) :
            toLowerCaseChar(SubSeq(name, i + k, i + k)) = toLowerCaseChar(SubSeq(query, k, k))

\* C28: with the query of the search box, the search predicate is true for a
\* group exactly if its own name or the name of a node below it, at any depth,
\* contains the query case-insensitively, and for a leaf exactly if its name
\* does; the empty query matches every node.
C28_SearchPredicate ==
    \A n \in Range(Nodes(tree)) :
        filterTree(n, searchQuery) <=>
            IF searchQuery = "" THEN TRUE
            ELSE IF isLayerGroup(n)
            THEN \E d \in Range(Nodes(n)) : ContainsIgnoringCase(d.name, searchQuery)
            ELSE ContainsIgnoringCase(n.name, searchQuery)

\* C28 witness: in the tree view the query "25 Y" is typed; the leaf "25 Years"
\* three levels below the top matches, and so does each of the three groups
\* above it, none of which has the query in its own name; Present Climate keeps
\* its item and Survey, with no match below it, loses its item.
C28_Witness ==
    LET q == "25 Y"
        leaf == findNode(tree, "t3_25yrs_present_breaches_maxdepth")
        above == {findNode(tree, id) :
                     id \in {"present_climate", "present_breaches", "Present_Breaches_maxdepth"}}
    IN  /\ searchQuery = q
        /\ viewMode = "tree"
        /\ leaf.name = "25 Years"
        /\ filterTree(leaf, q)
        /\ Cardinality(above) = 3
        /\ \A g \in above :
               /\ isLayerGroup(g)
               /\ filterTree(g, q)
               /\ ~ContainsIgnoringCase(g.name, q)
        /\ "present_climate" \in {n.id : n \in Items}
        /\ "survey" \notin {n.id : n \in Items}

\* every node of a tree without its children and its expanded flag: what is left
\* is the id, the name, the visible flag and the opacity
Unexpanded(t) ==
    LET nodes == Nodes(t)
    IN  [i \in DOMAIN nodes |-> Without(nodes[i], {"children", "expanded"})]

IsExpandOp(e) == e.op \in {"expand", "expandAll", "collapseAll"}

IsVisibilityOp(e) == e.op \in {"notify", "setTree"}

\* what the visibility callbacks queue for `toggles` on tree t
ToggleCalls(t, toggles) ==
    Flatten([k \in DOMAIN toggles |->
                handleToggleVisibility(t, toggles[k].id, toggles[k].visible, k)])

\* C29: the expanded flags take no part in the visibility logic.  A render that
\* applies an expand operation (an expand toggle, expandAll, collapseAll) changes
\* no node's visible flag or opacity, nor the Visible-ID Set, the overrides or
\* the handles on the map.  A visibility event queues the same notifications and
\* updates, and these give the same visible flags, as it would with every group
\* expanded and with every group collapsed; and so does the sync.
C29_ExpandedIsInert ==
    [][/\ (phase = "render" /\ pending # <<>> /\ \A k \in DOMAIN pending : IsExpandOp(pending[k]))
          => /\ Unexpanded(tree') = Unexpanded(tree)
             /\ UNCHANGED <<visibleLayerIds, layerOpacities, olLayers, layerRefs>>
       /\ (/\ phase = "idle"
           /\ lastStep' = "event"
           /\ pending' # <<>>
           /\ \A k \in DOMAIN pending' : IsVisibilityOp(pending'[k]))
          => \A flags \in {Unexpanded(ApplyTreeUpdates(tree, pending'))} :
                 \A other \in {expandAll(tree), collapseAll(tree)} \ {tree} :
                     /\ ToggleCalls(other, lastToggle'.toggles) = pending'
                     /\ Unexpanded(ApplyTreeUpdates(other, pending')) = flags
       /\ (phase = "render" /\ HasOp(pending, "sync"))
          => \A flags \in {Unexpanded(tree')} :
                 \A other \in {expandAll(tree), collapseAll(tree)} \ {tree} :
                     Unexpanded(ApplyTreeUpdates(other, pending)) = flags]_vars

\* C29 witness: the Structures group was switched on while collapsed and expanded
\* afterwards: its leaves are visible in the tree, in the Set and on the map as
\* the toggle and its sync left them.
C29_Witness ==
    /\ Quiescent
    /\ lastStep = "render"
    /\ events = 2
    /\ lastToggle.kind = "groupItem"
    /\ lastToggle.toggles = <<[id |-> "structures", visible |-> TRUE]>>
    /\ findNode(tree, "structures").expanded
    /\ InSet("canal_network", visibleLayerIds)
    /\ "canal_network" \in DOMAIN layerRefs
    /\ [id |-> "canal_network", visible |-> TRUE] \in Range(LeafFlags(tree))

\* C30: the two directions of synchronisation do not feed each other.  The sync
\* effect's step issues no notification to the owner of the Visible-ID Set and
\* leaves the Set as it is; the render of a sync schedules no further effect; and
\* whenever updates are queued or an effect is due, the system comes to a
\* quiescent state.
C30_SyncTerminates ==
    /\ [][/\ phase = "effect" =>
                 /\ ~HasOp(pending', "notify")
                 /\ visibleLayerIds' = visibleLayerIds
          /\ (phase = "render" /\ HasOp(pending, "sync")) =>
                 /\ phase' = "idle"
                 /\ visibleLayerIds' = visibleLayerIds]_vars
    /\ (~Quiescent ~> Quiescent)

\* C30 witness: a visibility event was followed by its render, the sync effect
\* and the render of the sync, and the system is quiescent with the Set and the
\* tree's leaves in agreement.
C30_Witness ==
    /\ Quiescent
    /\ lastStep = "sync"
    /\ lastToggle.kind # "none"
    /\ visibleLayerIds # <<>>
    /\ lastSync.ids = visibleLayerIds
    /\ \A i \in DOMAIN LeafFlags(tree) :
           LeafFlags(tree)[i].visible <=> InSet(LeafFlags(tree)[i].id, visibleLayerIds)

(***************************************************************************)
(* The Visible-ID Set and the tree at rest.                                *)
(***************************************************************************)
\* C31: at every quiescent point, the initial state included, each leaf's visible
\* flag in the displayed tree is true iff its id is in the Visible-ID Set; the
\* Set starts as exactly the ids of the catalog leaves whose visible is true.
C31_LeavesAgreeAtRest ==
    /\ Quiescent =>
           LET now == LeafFlags(tree)
           IN  \A i \in DOMAIN now : now[i].visible <=> InSet(now[i].id, visibleLayerIds)
    /\ lastStep = "init" =>
           LET catalog == LeafFlags(layerTree)
           IN  /\ Range(visibleLayerIds) =
                      {catalog[i].id : i \in {j \in DOMAIN catalog : catalog[j].visible}}
               /\ Cardinality(Range(visibleLayerIds)) = Len(visibleLayerIds)

\* C31 witness: at rest after a visibility event and its sync, with some leaves in
\* the Set and others, visible before the event, out of it.
C31_Witness ==
    /\ Quiescent
    /\ events = 2
    /\ lastToggle.kind # "none"
    /\ lastToggle.idsBefore # <<>>
    /\ visibleLayerIds # <<>>
    /\ Range(lastToggle.idsBefore) \ Range(visibleLayerIds) # {}

\* C32: at every quiescent point the opacity stored on each leaf of the
\* displayed tree is the opacity override recorded for the leaf's id if there is
\* one and the catalog default otherwise; an opacity change delivered for a leaf
\* id writes the leaf of that id and no group: no group carries an opacity.
C32_TreeOpacityIsOverride ==
    /\ Quiescent =>
           \A n \in Range(Nodes(tree)) :
               ~isLayerGroup(n) =>
                   n.opacity = IF n.id \in DOMAIN layerOpacities
                               THEN layerOpacities[n.id]
                               ELSE CatalogOpacity(n.id)
    /\ \A n \in Range(Nodes(tree)) : isLayerGroup(n) => "opacity" \notin DOMAIN n

\* C33: after the local tree update of a toggle addressed to a single leaf (the
\* render of the click on a leaf's item, before the sync), on a tree whose leaf
\* flags agreed with the Visible-ID Set, every group of the tree has visible
\* equal to the OR of its descendant leaves' visible.
C33_LeafToggleRecomputesGroups ==
    (lastToggle.kind = "leafItem" /\ lastStep = "render" /\ phase = "effect"
        /\ \A i \in DOMAIN lastToggle.leavesBefore :
               lastToggle.leavesBefore[i].visible
                   <=> InSet(lastToggle.leavesBefore[i].id, lastToggle.idsBefore)) =>
        \A g \in GroupsOf(tree) : g.visible = AnyLeafVisible(g)

\* the ids carried by a group and by no leaf
GroupOnlyIds == GroupIds(layerTree) \ ListIds(allLayers)

C35_OpacityWithinEpsilon ==
    \A i \in DOMAIN visibleLayers :
        LET id == visibleLayers[i].id
        IN  /\ id \in DOMAIN layerRefs
            /\ Abs(olLayers[layerRefs[id]].opacity - visibleLayers[i].opacity)
                   <= OpacityEpsilon
            /\ layerOpacitiesRef[id] = olLayers[layerRefs[id]].opacity

\* C35 witness: the fourth run has left a change of one epsilon unapplied on the
\* layer made by the first run, whose opacity, two epsilons away from the
\* catalog's, is one an earlier run has set or made it with.
C35_Witness ==
    /\ passes = 4
    /\ "canal_network" \in DOMAIN layerRefs
    /\ layerRefs["canal_network"] = <<"canal_network", 1>>
    /\ olLayers[layerRefs["canal_network"]].opacity = 98
    /\ EntryOf(visibleLayers, "canal_network").opacity = 97
    /\ <<"setOpacity", "canal_network">> \notin lastPass.calls

\* C36: after the map was torn down and made again, a run of the WMS-layer
\* effect leaves every leaf of the visible list with a handle that is on the
\* current map, and the handle map never holds a handle of a discarded map.
C36_HandlesOnCurrentMap ==
    [][/\ (passes' = passes + 1 /\ mapInstance.live) =>
              \A i \in DOMAIN visibleLayers' :
                  /\ visibleLayers'[i].id \in DOMAIN layerRefs'
                  /\ layerRefs'[visibleLayers'[i].id] \in mapInstance'.layers
       /\ mapInstance'.live =>
              \A id \in DOMAIN layerRefs' : layerRefs'[id] \in mapInstance'.layers]_vars

\* C37: when a step unmounts the item of a leaf (its group is collapsed, the view
\* is switched, the search hides it) while a timeout of that item is pending, the
\* timeout is cleared; a timeout that runs is that of a mounted item whose inputs
\* no unmount has dropped, so the dropped notification is never delivered.
C37_UnmountCancelsPending ==
    [][/\ \A mounted \in {MountedLeafIds(tree', viewMode', searchQuery')} :
              \A i \in DOMAIN timeouts :
                  timeouts[i].id \notin mounted =>
                      \A j \in DOMAIN timeouts' : timeouts'[j].id # timeouts[i].id
       /\ (lastStep' = "timeout" /\ Len(timeouts') < Len(timeouts)) =>
              /\ sliderLog'.delivered.id \in MountedLeafIds(tree, viewMode, searchQuery)
              /\ sliderLog'.delivered.id \notin sliderLog.dropped
              /\ sliderLog'.delivered.id \in DOMAIN sliderLog.burst
              /\ sliderLog'.delivered.value = Last(sliderLog.burst[sliderLog'.delivered.id])]_vars

\* C37 witness: the Structures group was collapsed while the slider input of
\* Canal Network was waiting: the input was dropped, nothing is pending and no
\* opacity was ever recorded for the leaf.
C37_Witness ==
    /\ Quiescent
    /\ "canal_network" \in sliderLog.dropped
    /\ "canal_network" \notin DOMAIN sliderLog.recorded
    /\ "canal_network" \notin DOMAIN layerOpacities
    /\ "canal_network" \notin MountedLeafIds(tree, viewMode, searchQuery)
    /\ timeouts = <<>>
    /\ \E g \in GroupsOf(tree) : g.id = "structures" /\ ~g.expanded

\* the pending timeouts of the leaves other than `id`, in the order they were set
TimeoutsOfOthers(ts, id) == SelectSeq(ts, LAMBDA t : t.id # id)

\* C38: the pending opacity notifications of different leaves do not supersede
\* each other: a slider input on one leaf leaves the pending timeouts of every
\* other leaf as they are, and a timeout that runs delivers the id of its own
\* leaf with that leaf's last input value and leaves the others pending.
C38_TimersArePerLeaf ==
    [][/\ lastStep' = "slider" /\ events' = events + 1 =>
              \A id \in SliderNodeIds :
                  (id \in DOMAIN sliderLog'.burst
                      /\ (id \notin DOMAIN sliderLog.burst
                             \/ sliderLog'.burst[id] # sliderLog.burst[id])) =>
                      /\ TimeoutsOfOthers(timeouts', id) = TimeoutsOfOthers(timeouts, id)
                      /\ \A other \in DOMAIN sliderLog.burst \ {id} :
                             /\ other \in DOMAIN sliderLog'.burst
                             /\ sliderLog'.burst[other] = sliderLog.burst[other]
       /\ (lastStep' = "timeout" /\ Len(timeouts') < Len(timeouts)) =>
              \E id \in DOMAIN sliderLog.burst :
                  /\ pending' = handleOpacityChange(id, Last(sliderLog.burst[id]))
                  /\ TimeoutsOfOthers(timeouts', id) = TimeoutsOfOthers(timeouts, id)
                  /\ PendingOf(id) # {}]_vars

\* C38 witness: an input on one leaf came while the timeout of another leaf was
\* running: both are pending, the older one with time on its clock.
C38_Witness ==
    /\ lastStep = "slider"
    /\ Len(timeouts) = 2
    /\ timeouts[1].id # timeouts[2].id
    /\ timeouts[1].elapsed > 0
    /\ timeouts[2].elapsed = 0
    /\ DOMAIN sliderLog.burst = {timeouts[1].id, timeouts[2].id}

(***************************************************************************)
(* What the sync leaves alone.                                             *)
(***************************************************************************)
\* a tree with every visible flag put out: what is left are the ids, the names,
\* the expanded flags, the opacities, every other field, and the children in
\* their order
RECURSIVE WithoutVisibility(_)
WithoutVisibility(node) ==
    IF isLayerGroup(node)
    THEN [node EXCEPT !.visible = FALSE,
                      !.children = [i \in DOMAIN node.children |->
                                       WithoutVisibility(node.children[i])]]
    ELSE [node EXCEPT !.visible = FALSE]

\* C39: the external-to-tree sync changes visible flags only: the render of a
\* sync leaves every node's id, name and expanded flag, every leaf's opacity and
\* the order of every group's children as they were, and so does syncVisibility
\* on every tree a step produces, for the empty Set, the current Set and the Set
\* of all leaves.
C39_SyncChangesVisibleOnly ==
    [][/\ (phase = "render" /\ HasOp(pending, "sync")) =>
              WithoutVisibility(tree') = WithoutVisibility(tree)
       /\ \A t \in {tree'} :
              t # tree =>
                  \A before \in {WithoutVisibility(t)} :
                      \A ids \in {<<>>, visibleLayerIds', collectLayerIds(t)} :
                          WithoutVisibility(syncVisibility(t, ids)) = before]_vars

\* C39 witness: a sync has just been rendered on a tree in which a group had been
\* opened and an opacity written since the catalog was loaded, and it changed the
\* flag of some leaf.
C39_Witness ==
    /\ lastStep = "sync"
    /\ WithoutVisibility(tree) # WithoutVisibility(layerTree)
    /\ \E n \in Range(Nodes(tree)) : isLayerGroup(n) /\ n.expanded /\ n.id = "structures"
    /\ DOMAIN sliderLog.recorded # {}
    /\ LeafFlags(tree) # lastToggle.leavesBefore
====
